---- MODULE Spec2Model ----
(***************************************************************************)
(* Model of the Christmas-tree scene: the mix-factor interpolation state   *)
(* of every primitive, the ornament slot layout, the photo transform       *)
(* save/load path and the photo texture loader.                            *)
(*                                                                         *)
(* Numbers.  Mix values and frame deltas are exact rationals [n, d] kept   *)
(* in lowest terms.  Photo transforms are fixed point, in hundredths       *)
(* (scale 1.0 = 100).  Layout lengths are fixed point, in thousandths.     *)
(***************************************************************************)
EXTENDS Integers, Sequences, FiniteSets, TLC

(* ------------------------------ bounds -------------------------------- *)
\* frame ticks explored in one behaviour
MaxFrames == 3
\* photo texture loads started in one behaviour
MaxLoads == 2

(* ----------------------------- rationals ------------------------------ *)
Abs(x) == IF x < 0 THEN -x ELSE x

RECURSIVE GCD(_, _)
GCD(a, b) == IF b = 0 THEN a ELSE GCD(b, a % b)

Rat(n, d) ==
    LET g == GCD(Abs(n), d)
    IN  IF n = 0 THEN [n |-> 0, d |-> 1] ELSE [n |-> n \div g, d |-> d \div g]

RAdd(a, b) ==
    LET g == GCD(a.d, b.d)
    IN  Rat(a.n * (b.d \div g) + b.n * (a.d \div g), (a.d \div g) * b.d)

RNeg(a) == [n |-> -a.n, d |-> a.d]
RSub(a, b) == RAdd(a, RNeg(b))
RMul(a, b) ==
    LET g1 == GCD(Abs(a.n), b.d)
        g2 == GCD(Abs(b.n), a.d)
        h1 == IF g1 = 0 THEN 1 ELSE g1
        h2 == IF g2 = 0 THEN 1 ELSE g2
    IN  Rat((a.n \div h1) * (b.n \div h2), (a.d \div h2) * (b.d \div h1))
RLt(a, b) == a.n * b.d < b.n * a.d
RLe(a, b) == a.n * b.d <= b.n * a.d
RMin(a, b) == IF RLe(a, b) THEN a ELSE b
RMax(a, b) == IF RLe(a, b) THEN b ELSE a

Zero == [n |-> 0, d |-> 1]
One == [n |-> 1, d |-> 1]

(* ------------------- utils/math and the per-frame lag ------------------ *)
\* lerp(start, end, t) = start + (end - start) * clamp(t, 0, 1)
lerp(a, b, t) == RAdd(a, RMul(RSub(b, a), RMax(Zero, RMin(One, t))))

\* the external target as a rational
MixOf(target) == [n |-> target, d |-> 1]

\* useRef(mixFactor): the ornament starts at the external target
OrnamentMeshInit(mixFactor) == MixOf(mixFactor)
GiftBoxMeshInit(mixFactor) == MixOf(mixFactor)
\* useRef(1): these start at 1 whatever the external target is
PhotoFrameMeshInit(mixFactor) == One
TopStarInit(mixFactor) == One
SpiralLightsInit(mixFactor) == One
SnowInit(mixFactor) == One

\* speed = k * delta; currentMixRef.current = lerp(currentMixRef.current, mixFactor, speed)
OrnamentMeshSpeed(delta) == RMul([n |-> 9, d |-> 10], delta)
GiftBoxMeshSpeed(delta) == RMul([n |-> 9, d |-> 10], delta)
PhotoFrameMeshSpeed(delta) == RMul([n |-> 4, d |-> 5], delta)
TopStarSpeed(delta) == RMul([n |-> 2, d |-> 1], delta)
SpiralLightsSpeed(delta) == RMul([n |-> 2, d |-> 1], delta)
SnowSpeed(delta) == RMul(delta, [n |-> 2, d |-> 1])

\* mutant: the ornament adds the scaled difference without the clamp of lerp
OrnamentMeshMixUnclamped(cur, mixFactor, delta) ==
    RAdd(cur, RMul(RSub(MixOf(mixFactor), cur), OrnamentMeshSpeed(delta)))
OrnamentMeshMix(cur, mixFactor, delta) == lerp(cur, MixOf(mixFactor), OrnamentMeshSpeed(delta))
\* mutant: the gift box snaps to the target instead of interpolating
GiftBoxMeshMixSnap(cur, mixFactor, delta) == MixOf(mixFactor)
GiftBoxMeshMix(cur, mixFactor, delta) == lerp(cur, MixOf(mixFactor), GiftBoxMeshSpeed(delta))
PhotoFrameMeshMix(cur, mixFactor, delta) == lerp(cur, MixOf(mixFactor), PhotoFrameMeshSpeed(delta))
TopStarMix(cur, mixFactor, delta) == lerp(cur, MixOf(mixFactor), TopStarSpeed(delta))
SpiralLightsMix(cur, mixFactor, delta) == lerp(cur, MixOf(mixFactor), SpiralLightsSpeed(delta))
SnowMix(cur, mixFactor, delta) == lerp(cur, MixOf(mixFactor), SnowSpeed(delta))

\* the primitives that mount with the scene; photo frames mount with their texture
Prims == {"ORNAMENT", "GIFTBOX", "TOPSTAR", "SPIRAL", "SNOW"}

PrimInit(p, mixFactor) ==
    CASE p = "ORNAMENT" -> OrnamentMeshInit(mixFactor)
      [] p = "GIFTBOX" -> GiftBoxMeshInit(mixFactor)
      [] p = "TOPSTAR" -> TopStarInit(mixFactor)
      [] p = "SPIRAL" -> SpiralLightsInit(mixFactor)
      [] p = "SNOW" -> SnowInit(mixFactor)

PrimMix(p, cur, mixFactor, delta) ==
    CASE p = "ORNAMENT" -> OrnamentMeshMix(cur, mixFactor, delta)
      [] p = "GIFTBOX" -> GiftBoxMeshMix(cur, mixFactor, delta)
      [] p = "TOPSTAR" -> TopStarMix(cur, mixFactor, delta)
      [] p = "SPIRAL" -> SpiralLightsMix(cur, mixFactor, delta)
      [] p = "SNOW" -> SnowMix(cur, mixFactor, delta)

PrimSpeed(p, delta) ==
    CASE p = "ORNAMENT" -> OrnamentMeshSpeed(delta)
      [] p = "GIFTBOX" -> GiftBoxMeshSpeed(delta)
      [] p = "TOPSTAR" -> TopStarSpeed(delta)
      [] p = "SPIRAL" -> SpiralLightsSpeed(delta)
      [] p = "SNOW" -> SnowSpeed(delta)

\* elapsed seconds a frame tick may report: none, a slow frame (factor below 1 for
\* the 0.8 and 0.9 rates, above 1 for the 2.0 rate) and a long stall
Deltas == {Zero, [n |-> 5, d |-> 9], [n |-> 5, d |-> 4]}

\* the photo frame accepts a click as a focus request below this value
PhotoUnlock == [n |-> 1, d |-> 4]

(* ------------------------- photo transforms --------------------------- *)
\* photos the model tells apart (cache keys 1..MaxPhotos)
MaxPhotos == 2
PhotoKeys == 1..MaxPhotos
\* edits made in the focus overlay in one behaviour
MaxEdits == 1

MinOf(a, b) == IF a <= b THEN a ELSE b
MaxOf(a, b) == IF a >= b THEN a ELSE b

\* const clampValue = (v, min, max) => Math.min(max, Math.max(min, v))
clampValue(v, min, max) == MinOf(max, MaxOf(min, v))

\* a transform in hundredths; an optional transform is << >> or <<t>>
T(s, x, y) == [scale |-> s, ox |-> x, oy |-> y]
ScaleOf(opt) == IF opt = << >> THEN 100 ELSE opt[1].scale
OxOf(opt) == IF opt = << >> THEN 0 ELSE opt[1].ox
OyOf(opt) == IF opt = << >> THEN 0 ELSE opt[1].oy

\* usePhotoTexture: the values the canvas is drawn with
safeScale(opt) == MaxOf(50, MinOf(250, ScaleOf(opt)))
safeOx(opt) == MaxOf(-60, MinOf(60, OxOf(opt)))
safeOy(opt) == MaxOf(-60, MinOf(60, OyOf(opt)))

InRange(s, x, y) == /\ 50 <= s /\ s <= 250
                    /\ -60 <= x /\ x <= 60
                    /\ -60 <= y /\ y <= 60

\* what localStorage photo_transforms_v1 may hold for a key when the app starts
StoredTransforms == {T(100, 0, 0), T(9900, 500, 0), T(30, 0, -500)}
NoTransforms == [k \in PhotoKeys |-> << >>]
\* the stored maps followed: no entry, or an entry for one key
StoredMaps == {NoTransforms} \cup
    {[NoTransforms EXCEPT ![k] = <<t>>] : k \in PhotoKeys, t \in StoredTransforms}

\* JSON.stringify / JSON.parse of the transform map: absent keys stay absent
Stringify(trans) == {<<k, trans[k][1]>> : k \in {j \in PhotoKeys : trans[j] # << >>}}
Parse(raw) == [k \in PhotoKeys |->
                 IF \E e \in raw : e[1] = k
                 THEN <<(CHOOSE e \in raw : e[1] = k)[2]>> ELSE << >>]

\* what the IndexedDB image store may hold when the app starts: keys, newest first
RECURSIVE Perms(_)
Perms(S) == IF S = {} THEN {<< >>}
            ELSE UNION {{<<k>> \o q : q \in Perms(S \ {k})} : k \in S}
StoredImages == UNION {Perms(S) : S \in SUBSET PhotoKeys}

\* the IndexedDB store a session can start with: empty, or one photo cached at time 0
StoredRecords == {{}, {[key |-> 1, createdAt |-> 0]}}

VARIABLES
    targetMix,        \* App: const [targetMix, setTargetMix] = useState(1)
    inputRef,         \* App: inputRef.current.isDetected
    sceneMounted,     \* the Canvas has mounted SceneContent
    currentMix,       \* currentMixRef.current of each scene primitive
    frames,           \* frame ticks so far
    held,             \* per primitive: the delta of the run from 0 with target 1, or << >>
    idbImages,        \* IndexedDB images store (keys, newest first)
    lsTransforms,     \* localStorage photo_transforms_v1
    mountPc,          \* App mount: "init", "effects" (first commit's effects ran), "done"
    cacheLoaded,      \* the mount-time loadCachedImagesWithKeys promise has settled
    pendingDeletes,   \* keys whose deleteCachedImages call is in flight
    userImageRecords, \* App: userImageRecords (a record's url is the blob of its key)
    photoTransforms,  \* App: photoTransforms
    photoComp,        \* UserPhotoOrnament instances, by position in userImages
    loads,            \* usePhotoTexture effect runs started so far
    disposed,         \* textures dispose() was called on
    setTextureCalls,  \* effect runs that called setTexture
    focusedEntry,     \* App: focusedEntry, << >> when null
    focusScale,       \* App: focusScale
    focusOffset,      \* App: focusOffset
    closeTimer,       \* closeFocused: the pending setTimeout(() => setFocusedEntry(null))
    edits,            \* overlay edits so far
    toggles,          \* toggleState calls in a row since any other step (0, 1 or 2)
    beforeToggles,    \* the mix state before the first of them, or << >>
    layout,           \* the latest value of an Ornaments data memo, with its inputs
    prevLayout,       \* the one computed before it
    photoProps,       \* props of the mounted PHOTO Ornaments instance, << >> when none
    bound,            \* the children its latest render returned (<< >> for null)
    prevBound,        \* the children of the render before it
    pose,             \* per bound PhotoFrameMesh: its refs and what its last frame set
    db,               \* IndexedDB store 'images': records [key, createdAt]
    now,              \* the last value Date.now() returned
    made,             \* keys and object URLs made so far: <<keys, urls>>
    imageRecords,     \* App: userImageRecords with the object URL of every record
    revoked,          \* object URLs URL.revokeObjectURL was called on
    transformMap,     \* App: photoTransforms over the keys of the store
    pendingBg,        \* App: pendingBgFile / pendingBgUrl, << >> when null
    draft,            \* App: draftBgScale / draftBgOffset (0: the default 1, {0, 0})
    isProcessing,     \* App: isProcessing
    tasks,            \* async calls of the App in flight or finished
    txq,              \* IndexedDB transactions created and not yet run, oldest first
    handX,            \* App: inputRef.current.x
    lastGesture,      \* the data of the last handleGesture call: [isDetected, isOpen]
    ctrl,             \* SceneController: its refs, the group's rotation.y, the last branch
    lsSignatures,     \* localStorage photo_signatures_v1
    lsCards,          \* localStorage custom_cards_v1
    storedBefore,     \* what the two items held before the app started
    photoSignatures,  \* App: photoSignatures
    customCards,      \* App: customCards
    cardsLoaded,      \* App: cardsLoaded
    startPc,          \* the commits of the App's mount: "init", "effects", "done"
    kv,               \* share API: the TREE_KV namespace, a set of [key, value]
    posted,           \* share API: the successful POSTs so far: [id, payload]
    response,         \* share API: the last response
    requests,         \* share API: requests served
    clicked,          \* the photo frame position this step's pointer-down hit, else 0
    emitted           \* whether this step called onFocusMedia

cacheVars == <<db, now, made, imageRecords, revoked, transformMap, pendingBg, draft,
              isProcessing, tasks, txq>>
\* the variables of the later sections, which no step of the earlier ones touches
ctrlVars == <<handX, lastGesture, ctrl>>
startVars == <<lsSignatures, lsCards, storedBefore, photoSignatures, customCards,
              cardsLoaded, startPc>>
shareVars == <<kv, posted, response, requests>>
extraVars == <<cacheVars, ctrlVars, startVars, shareVars>>
mixVars == <<targetMix, inputRef, sceneMounted, currentMix, frames, held>>
storeVars == <<idbImages, lsTransforms, mountPc, cacheLoaded, pendingDeletes>>
photoVars == <<userImageRecords, photoTransforms, photoComp, loads, disposed, setTextureCalls>>
focusVars == <<focusedEntry, focusScale, focusOffset, closeTimer, edits>>
clickVars == <<clicked, emitted>>
toggleVars == <<toggles, beforeToggles>>
layoutVars == <<layout, prevLayout, photoProps, bound, prevBound, pose, extraVars>>
appVars == <<mixVars, storeVars, photoVars, focusVars, clickVars, toggleVars, extraVars>>
vars == <<appVars, layoutVars>>

NoRun == << >>

\* a step that is no pointer-down on a photo frame
NoClick == clicked' = 0 /\ emitted' = FALSE

\* a step that is no toggleState call
NoToggle == toggles' = 0 /\ beforeToggles' = << >>

InitApp ==
    /\ targetMix = 1
    /\ inputRef = [isDetected |-> FALSE]
    /\ sceneMounted = FALSE
    /\ currentMix = [p \in Prims |-> One]
    /\ frames = 0
    /\ held = [p \in Prims |-> NoRun]
    /\ idbImages \in StoredImages
    /\ lsTransforms \in {Stringify(m) : m \in StoredMaps}
    /\ mountPc = "init"
    /\ cacheLoaded = FALSE
    /\ pendingDeletes = {}
    /\ userImageRecords = << >>
    /\ photoTransforms = NoTransforms
    /\ photoComp = << >>
    /\ loads = << >>
    /\ disposed = {}
    /\ setTextureCalls = {}
    /\ focusedEntry = << >>
    /\ focusScale = 100
    /\ focusOffset = [x |-> 0, y |-> 0]
    /\ closeTimer = FALSE
    /\ edits = 0
    /\ clicked = 0
    /\ emitted = FALSE
    /\ toggles = 0
    /\ beforeToggles = << >>
    /\ layout = << >>
    /\ prevLayout = << >>
    /\ photoProps = << >>
    /\ bound = << >>
    /\ prevBound = << >>
    /\ pose = << >>

\* the App's photo cache state after construction, over the store the session starts with
InitCache(stored) ==
    /\ db = stored
    /\ now = 1
    /\ made = <<Cardinality(stored), 0>>
    /\ imageRecords = << >>
    /\ revoked = {}
    /\ transformMap = {}
    /\ pendingBg = << >>
    /\ draft = 0
    /\ isProcessing = FALSE
    /\ tasks = << >>
    /\ txq = << >>

\* SceneController's refs after its first render, and the App's inputRef position
InitController ==
    /\ handX = Zero
    /\ lastGesture = [isDetected |-> FALSE, isOpen |-> FALSE]
    /\ ctrl = [isDragging |-> FALSE, rotationVelocity |-> Rat(1, 500), wasDetected |-> FALSE,
               lastHandX |-> << >>, currentInput |-> Zero, rotation |-> Zero,
               branch |-> "none", n |-> 0]

\* JSON values the model tells apart, and the text of a localStorage item or request body:
\* missing (getItem returns null), not parsable, or the JSON text of a value
JNumber == [type |-> "number", entries |-> {}, items |-> << >>]
JObject(entries) == [type |-> "object", entries |-> entries, items |-> << >>]
JArray(items) == [type |-> "array", entries |-> {}, items |-> items]
Missing == [kind |-> "missing", v |-> JNumber]
Garbage == [kind |-> "garbage", v |-> JNumber]
\* JSON.stringify(v)
JSONstringify(v) == [kind |-> "json", v |-> v]

\* photo_signatures_v1 of an earlier session, or what something else left there
SignatureEntries == {[key |-> 1, text |-> "a"], [key |-> 2, text |-> "b"]}
StoredSignatures ==
    {Missing, Garbage, JSONstringify(JNumber)}
        \cup {JSONstringify(JObject(E)) : E \in SUBSET SignatureEntries}
\* custom_cards_v1: cards of an earlier session, some without an id
CardItems == {[id |-> "c1", message |-> "hi", signature |-> "me"],
              [id |-> "c2", message |-> "", signature |-> ""],
              [id |-> "", message |-> "hi", signature |-> "me"]}
StoredCards ==
    {Missing, Garbage, JSONstringify(JObject({}))}
        \cup {JSONstringify(JArray(q)) : q \in {<< >>} \cup {<<a>> : a \in CardItems}
                                                \cup {<<a, b>> : a, b \in CardItems}}

\* the App's first render over what localStorage holds
InitStartup(signatures, cards) ==
    /\ lsSignatures = signatures
    /\ lsCards = cards
    /\ storedBefore = [signatures |-> signatures, cards |-> cards]
    /\ photoSignatures = JObject({})
    /\ customCards = << >>
    /\ cardsLoaded = FALSE
    /\ startPc = "init"

\* a share payload: null, or an object whose images field is absent, a string or an array
NoImages == [type |-> "absent", items |-> << >>]
NullPayload == [nul |-> TRUE, images |-> NoImages]
Payloads ==
    {NullPayload}
        \cup {[nul |-> FALSE, images |-> i] :
                  i \in {NoImages, [type |-> "string", items |-> << >>],
                         [type |-> "array", items |-> << >>],
                         [type |-> "array", items |-> <<"a">>]}}
\* a request body or a stored value: text that does not parse, or the JSON text of a
\* payload, with or without insignificant whitespace
NoBody == [kind |-> "garbage", ws |-> FALSE, v |-> NullPayload]
Bodies == {NoBody} \cup {[kind |-> "json", ws |-> w, v |-> v] : w \in BOOLEAN, v \in Payloads}
NoResponse == [method |-> "", body |-> NoBody, key |-> 0, status |-> 0, id |-> 0,
               success |-> FALSE, value |-> NoBody]

\* the share API with an empty namespace
InitShare ==
    /\ kv = {}
    /\ posted = << >>
    /\ response = NoResponse
    /\ requests = 0

\* the state of the later sections after construction
InitExtra == InitController /\ InitStartup(Missing, Missing) /\ InitShare

\* a session that starts with nothing cached in the store
Init == InitApp /\ InitCache({}) /\ InitExtra

(* ------------------- React commit of the photo ornaments -------------- *)
Range(q) == {q[i] : i \in 1..Len(q)}

\* <SuspensePhotoOrnament key={entry.key}>: entry.key is `${cacheKey}-${idx}`, so an
\* instance survives a re-render only at the same position with the same cache key
SameInstance(recs, i) == i <= Len(photoComp) /\ photoComp[i].key = recs[i]

\* useEffect deps [url, transform?.scale, transform?.offset?.x, transform?.offset?.y]
EffectDeps(trans, k) == trans[k]

\* positions whose effect runs in this commit (new instance, or changed deps)
EffectRuns(recs, trans) ==
    {i \in 1..Len(recs) :
        \/ ~SameInstance(recs, i)
        \/ photoComp[i].deps # EffectDeps(trans, recs[i])}

\* old positions whose effect cleanup runs in this commit (unmount, or changed deps)
CleanupRuns(recs, trans) ==
    {i \in 1..Len(photoComp) :
        \/ i > Len(recs)
        \/ photoComp[i].key # recs[i]
        \/ photoComp[i].deps # EffectDeps(trans, recs[i])}

\* the r-th smallest element of a set of positions
Nth(S, r) == CHOOSE i \in S : Cardinality({j \in S : j <= i}) = r
LoadIdAt(recs, trans, i) ==
    Len(loads) + Cardinality({j \in EffectRuns(recs, trans) : j <= i})

\* let cancelled = false; let activeTexture = null; load();
StartLoad(recs, trans, i) ==
    [key |-> recs[i],
     inst |-> IF SameInstance(recs, i) THEN photoComp[i].inst ELSE LoadIdAt(recs, trans, i),
     snap |-> EffectDeps(trans, recs[i]),
     cancelled |-> FALSE,
     status |-> "pending",
     drawn |-> << >>]

\* return () => { cancelled = true; if (activeTexture) activeTexture.dispose(); }
Cleanup(ld) == [ld EXCEPT !.cancelled = TRUE]
ActiveTexture(id) == loads[id].status \in {"ok", "fallback"}
CleanupDisposes(recs, trans) ==
    {photoComp[i].load : i \in {j \in CleanupRuns(recs, trans) : ActiveTexture(photoComp[j].load)}}

CommitLoads(recs, trans) ==
    LET cancelledIds == {photoComp[i].load : i \in CleanupRuns(recs, trans)}
        old == [id \in 1..Len(loads) |->
                   IF id \in cancelledIds THEN Cleanup(loads[id]) ELSE loads[id]]
        runs == EffectRuns(recs, trans)
    IN  old \o [r \in 1..Cardinality(runs) |-> StartLoad(recs, trans, Nth(runs, r))]

CommitComp(recs, trans) ==
    [i \in 1..Len(recs) |->
        IF SameInstance(recs, i)
        THEN [photoComp[i] EXCEPT
                 !.load = IF i \in EffectRuns(recs, trans)
                          THEN LoadIdAt(recs, trans, i) ELSE @,
                 !.deps = EffectDeps(trans, recs[i])]
        ELSE [key |-> recs[i],
              inst |-> LoadIdAt(recs, trans, i),
              load |-> LoadIdAt(recs, trans, i),
              deps |-> EffectDeps(trans, recs[i]),
              texture |-> 0,
              mix |-> One,
              held |-> NoRun]]

\* the commit that follows a change of userImages / photoTransforms
Commit(mounted, recs, trans) ==
    IF mounted
    THEN /\ Len(loads) + Cardinality(EffectRuns(recs, trans)) <= MaxLoads
         /\ photoComp' = CommitComp(recs, trans)
         /\ loads' = CommitLoads(recs, trans)
         /\ disposed' = disposed \cup CleanupDisposes(recs, trans)
    ELSE UNCHANGED <<photoComp, loads, disposed>>

\* a PhotoFrameMesh is mounted once its UserPhotoOrnament holds a texture
FrameMounted(c) == c.texture # 0

(* ------------------------------ App mount ----------------------------- *)
\* useEffect(() => localStorage.setItem('photo_transforms_v1', ...), [photoTransforms])
Persisted(trans) == Stringify(trans)

\* the first commit's effects: the load effect queues setPhotoTransforms(parsed), then
\* the persist effect writes the first render's photoTransforms, which is {}
AppMountEffects ==
    /\ mountPc = "init"
    /\ photoTransforms' = Parse(lsTransforms)
    /\ lsTransforms' = Persisted(NoTransforms)
    /\ mountPc' = "effects"
    /\ NoClick
    /\ NoToggle
    /\ UNCHANGED layoutVars
    /\ UNCHANGED <<mixVars, idbImages, cacheLoaded, pendingDeletes, userImageRecords,
                   photoComp, loads, disposed, setTextureCalls, focusVars>>

\* the re-render with the loaded map: the persist effect writes it back
AppMountRerender ==
    /\ mountPc = "effects"
    /\ lsTransforms' = Persisted(photoTransforms)
    /\ mountPc' = "done"
    /\ NoClick
    /\ NoToggle
    /\ UNCHANGED layoutVars
    /\ UNCHANGED <<mixVars, idbImages, cacheLoaded, pendingDeletes, photoVars,
                   focusVars>>

\* setPhotoTransforms(prev => keep only the keys of records)
PruneTransforms(trans, recs) ==
    [k \in PhotoKeys |-> IF k \in Range(recs) THEN trans[k] ELSE << >>]

\* applyImageRecords(records), with the commit and the persist effect that follow
applyImageRecords(recs) ==
    /\ userImageRecords' = recs
    /\ photoTransforms' = PruneTransforms(photoTransforms, recs)
    /\ lsTransforms' = Persisted(PruneTransforms(photoTransforms, recs))
    /\ Commit(sceneMounted, recs, PruneTransforms(photoTransforms, recs))

\* loadCachedImagesWithKeys(MAX_CACHE_IMAGES).then(records => ...)
LoadCachedImages ==
    /\ mountPc = "done"
    /\ ~cacheLoaded
    /\ cacheLoaded' = TRUE
    /\ IF Len(idbImages) > 0
       THEN applyImageRecords(idbImages)
       ELSE UNCHANGED <<userImageRecords, photoTransforms, lsTransforms,
                        photoComp, loads, disposed>>
    /\ NoClick
    /\ NoToggle
    /\ UNCHANGED layoutVars
    /\ UNCHANGED <<mixVars, idbImages, mountPc, pendingDeletes, setTextureCalls,
                   focusVars>>

\* the Canvas mounts SceneContent: every primitive's useRef initial value
SceneContentMount ==
    /\ mountPc = "done"
    /\ ~sceneMounted
    /\ sceneMounted' = TRUE
    /\ currentMix' = [p \in Prims |-> PrimInit(p, targetMix)]
    /\ held' = [p \in Prims |-> NoRun]
    /\ Commit(TRUE, userImageRecords, photoTransforms)
    /\ NoClick
    /\ NoToggle
    /\ UNCHANGED layoutVars
    /\ UNCHANGED <<targetMix, inputRef, frames, storeVars, userImageRecords,
                   photoTransforms, setTextureCalls, focusVars>>

(* --------------------------- the mix target --------------------------- *)
\* setTargetMix(prev => prev === 1 ? 0 : 1)
MixState == [target |-> targetMix, prims |-> currentMix,
             photos |-> [i \in 1..Len(photoComp) |-> photoComp[i].mix]]

\* mutant: a toggle also re-initialises every primitive at the new target
toggleStateRemount ==
    /\ mountPc = "done"
    /\ targetMix' = IF targetMix = 1 THEN 0 ELSE 1
    /\ currentMix' = [p \in Prims |-> MixOf(targetMix')]
    /\ held' = [p \in Prims |-> NoRun]
    /\ photoComp' = [i \in 1..Len(photoComp) |-> [photoComp[i] EXCEPT !.held = NoRun]]
    /\ toggles' = IF toggles = 1 THEN 2 ELSE 1
    /\ beforeToggles' = IF toggles = 1 THEN beforeToggles ELSE <<MixState>>
    /\ NoClick
    /\ UNCHANGED layoutVars
    /\ UNCHANGED <<inputRef, sceneMounted, frames, storeVars,
                   userImageRecords, photoTransforms, loads, disposed, setTextureCalls,
                   focusVars>>

toggleState ==
    /\ mountPc = "done"
    /\ targetMix' = IF targetMix = 1 THEN 0 ELSE 1
    /\ held' = [p \in Prims |-> NoRun]
    /\ photoComp' = [i \in 1..Len(photoComp) |-> [photoComp[i] EXCEPT !.held = NoRun]]
    /\ toggles' = IF toggles = 1 THEN 2 ELSE 1
    /\ beforeToggles' = IF toggles = 1 THEN beforeToggles ELSE <<MixState>>
    /\ NoClick
    /\ UNCHANGED layoutVars
    /\ UNCHANGED <<inputRef, sceneMounted, currentMix, frames, storeVars,
                   userImageRecords, photoTransforms, loads, disposed, setTextureCalls,
                   focusVars>>

\* mutant: the open hand forms the tree
GestureTargetSwapped(isOpen) == IF isOpen THEN 1 ELSE 0
\* const newTarget = data.isOpen ? 0 : 1
GestureTarget(isOpen) == IF isOpen THEN 0 ELSE 1

\* handleGesture(data) with data.position.x = x; the history of calls is left to the caller
handleGestureAt(isDetected, isOpen, x) ==
    /\ mountPc = "done"
    /\ IF isDetected
       THEN /\ targetMix' = GestureTarget(isOpen)
            /\ inputRef' = [isDetected |-> TRUE]
            /\ handX' = RMul(x, Rat(6, 5))
       ELSE /\ targetMix' = targetMix
            /\ inputRef' = [inputRef EXCEPT !.isDetected = FALSE]
            /\ handX' = handX
    /\ held' = IF targetMix' = targetMix THEN held ELSE [p \in Prims |-> NoRun]
    /\ photoComp' = IF targetMix' = targetMix THEN photoComp
                    ELSE [i \in 1..Len(photoComp) |-> [photoComp[i] EXCEPT !.held = NoRun]]
    /\ NoClick
    /\ NoToggle
    /\ UNCHANGED <<layout, prevLayout, photoProps, bound, prevBound, pose, cacheVars, ctrl,
                   startVars, shareVars>>
    /\ UNCHANGED <<sceneMounted, currentMix, frames, storeVars, userImageRecords,
                   photoTransforms, loads, disposed, setTextureCalls, focusVars>>

\* a gesture with the hand at the centre of the frame
handleGesture(isDetected, isOpen) ==
    handleGestureAt(isDetected, isOpen, Zero) /\ UNCHANGED lastGesture

(* ----------------------------- frame tick ----------------------------- *)
\* the delta of a run of ticks from 0 with the target at 1 that this tick belongs to
HeldNext(h, m, target, delta) ==
    IF target = 1 /\ (m = Zero \/ h = <<delta>>) THEN <<delta>> ELSE NoRun

\* what the useFrame callbacks compute from a mix state when a frame reports delta
FrameResult(st, delta) ==
    [prims |-> [p \in Prims |-> PrimMix(p, st.prims[p], st.target, delta)],
     photos |-> [i \in 1..Len(st.photos) |->
                    PhotoFrameMeshMix(st.photos[i], st.target, delta)]]

\* one rendered frame: every mounted primitive's useFrame callback runs with delta
useFrame(delta) ==
    /\ sceneMounted
    /\ frames < MaxFrames
    /\ frames' = frames + 1
    /\ currentMix' = FrameResult(MixState, delta).prims
    /\ held' = [p \in Prims |-> HeldNext(held[p], currentMix[p], targetMix, delta)]
    /\ photoComp' = [i \in 1..Len(photoComp) |->
                        IF FrameMounted(photoComp[i])
                        THEN [photoComp[i] EXCEPT
                                 !.mix = FrameResult(MixState, delta).photos[i],
                                 !.held = HeldNext(@, photoComp[i].mix, targetMix, delta)]
                        ELSE photoComp[i]]
    /\ NoClick
    /\ NoToggle
    /\ UNCHANGED layoutVars
    /\ UNCHANGED <<targetMix, inputRef, sceneMounted, storeVars, userImageRecords,
                   photoTransforms, loads, disposed, setTextureCalls, focusVars>>

(* --------------------------- texture loading -------------------------- *)
\* mutant: the load does not look at the cancelled flag
AbandonedIgnored(ld) == FALSE
\* if (cancelled) return;  (after the await, and again in the catch block)
Abandoned(ld) == ld.cancelled

\* ctx.translate(width / 2 + ox * width, ...); ctx.scale(safeScale, safeScale)
Drawn(transform) == T(safeScale(transform), safeOx(transform), safeOy(transform))

\* loadImageElement: try { return await fromUrl(url) } catch { fetch(url); if (!res.ok)
\* throw; return await fromUrl(tmpUrl) }: TRUE when an image element is returned, FALSE
\* when the promise rejects
loadImageElement(direct, fetched, retry) == direct \/ (fetched /\ retry)

\* a load whose rejection is not caught: the error leaves load() and nothing is set
LoadOutcomeUncaught(ld, ok) ==
    IF ok THEN (IF Abandoned(ld) THEN "dropped" ELSE "ok") ELSE "thrown"

\* how load() ends: try { img = await loadImageElement(url); if (cancelled) return; ...
\* setTexture(tex) } catch { if (cancelled) return; setTexture(createFallbackTexture()) }
LoadOutcome(ld, ok) ==
    IF Abandoned(ld) THEN "dropped" ELSE IF ok THEN "ok" ELSE "fallback"

\* the load of effect run id settles: the image loaded (ok) or both attempts failed
PhotoLoadSettle(id, ok) ==
    /\ id \in 1..Len(loads)
    /\ loads[id].status = "pending"
    /\ IF LoadOutcome(loads[id], ok) \notin {"ok", "fallback"}
       THEN /\ loads' = [loads EXCEPT ![id].status = LoadOutcome(loads[id], ok)]
            /\ UNCHANGED <<photoComp, setTextureCalls>>
       ELSE /\ loads' = [loads EXCEPT ![id].status = LoadOutcome(loads[id], ok),
                                     ![id].drawn = IF ok THEN <<Drawn(loads[id].snap)>>
                                                   ELSE << >>]
            /\ setTextureCalls' = setTextureCalls \cup {id}
            /\ photoComp' = [i \in 1..Len(photoComp) |->
                   IF photoComp[i].inst = loads[id].inst
                   THEN [photoComp[i] EXCEPT
                            !.texture = id,
                            !.mix = IF FrameMounted(photoComp[i]) THEN @
                                    ELSE PhotoFrameMeshInit(targetMix),
                            !.held = IF FrameMounted(photoComp[i]) THEN @ ELSE NoRun]
                   ELSE photoComp[i]]
    /\ NoClick
    /\ NoToggle
    /\ UNCHANGED layoutVars
    /\ UNCHANGED <<mixVars, storeVars, userImageRecords, photoTransforms, disposed,
                   focusVars>>

(* ------------------------------- focus -------------------------------- *)
\* handleFocusMedia for an image entry: key = entry.cacheKey, editable = entry.editable ?? true
handleFocusMedia(key, editable) ==
    /\ focusedEntry' = <<[kind |-> "image", key |-> key, editable |-> editable]>>
    /\ focusScale' = ScaleOf(photoTransforms[key])
    /\ focusOffset' = [x |-> OxOf(photoTransforms[key]), y |-> OyOf(photoTransforms[key])]

\* onPointerDown: if (onFocus && entry && mixFactor < 0.25)
FocusUnlocked(frame, mixFactor) == RLt(MixOf(mixFactor), PhotoUnlock)

\* pointer-down on the photo frame at position i; emitFocus passes editable: false
onPointerDown(i) ==
    /\ sceneMounted
    /\ i \in 1..Len(photoComp)
    /\ FrameMounted(photoComp[i])
    /\ clicked' = i
    /\ IF FocusUnlocked(photoComp[i], targetMix)
       THEN /\ emitted' = TRUE
            /\ handleFocusMedia(photoComp[i].key, FALSE)
       ELSE /\ emitted' = FALSE
            /\ UNCHANGED <<focusedEntry, focusScale, focusOffset>>
    /\ NoToggle
    /\ UNCHANGED layoutVars
    /\ UNCHANGED <<mixVars, storeVars, photoVars, closeTimer, edits>>

\* the manager's view button: handleFocusMedia({ kind: 'image', ..., editable: true })
ManageView(i) ==
    /\ mountPc = "done"
    /\ i \in 1..Len(userImageRecords)
    /\ handleFocusMedia(userImageRecords[i], TRUE)
    /\ NoClick
    /\ NoToggle
    /\ UNCHANGED layoutVars
    /\ UNCHANGED <<mixVars, storeVars, photoVars, closeTimer, edits>>

OverlayEditable == focusedEntry # << >> /\ focusedEntry[1].editable /\ edits < MaxEdits

\* nudgeScale(delta): setFocusScale(s => clamp(s + delta, 0.5, 2.5))
nudgeScale(delta) ==
    /\ OverlayEditable
    /\ focusScale' = clampValue(focusScale + delta, 50, 250)
    /\ edits' = edits + 1
    /\ NoClick
    /\ NoToggle
    /\ UNCHANGED layoutVars
    /\ UNCHANGED <<mixVars, storeVars, photoVars, focusedEntry, focusOffset, closeTimer>>

\* DraggableZoomableImage.handlePointerMove: onOffset(prev => clamp(prev + norm))
handlePointerMove(normDx, normDy) ==
    /\ OverlayEditable
    /\ focusOffset' = [x |-> clampValue(focusOffset.x + normDx, -60, 60),
                       y |-> clampValue(focusOffset.y + normDy, -60, 60)]
    /\ edits' = edits + 1
    /\ NoClick
    /\ NoToggle
    /\ UNCHANGED layoutVars
    /\ UNCHANGED <<mixVars, storeVars, photoVars, focusedEntry, focusScale, closeTimer>>

resetTransform ==
    /\ OverlayEditable
    /\ focusScale' = 100
    /\ focusOffset' = [x |-> 0, y |-> 0]
    /\ edits' = edits + 1
    /\ NoClick
    /\ NoToggle
    /\ UNCHANGED layoutVars
    /\ UNCHANGED <<mixVars, storeVars, photoVars, focusedEntry, closeTimer>>

\* mutant: the focus values are stored as they are
SavedTransformRaw(scale, offset) == T(scale, offset.x, offset.y)
\* the transform handleSaveSignature stores under the entry's key
SavedTransform(scale, offset) ==
    T(clampValue(scale, 50, 250), clampValue(offset.x, -60, 60), clampValue(offset.y, -60, 60))

handleSaveSignature ==
    /\ focusedEntry # << >>
    /\ focusedEntry[1].editable
    /\ focusedEntry[1].kind = "image"
    /\ LET key == focusedEntry[1].key
           next == [photoTransforms EXCEPT ![key] = <<SavedTransform(focusScale, focusOffset)>>]
       IN  /\ photoTransforms' = next
           /\ lsTransforms' = Persisted(next)
           /\ Commit(sceneMounted, userImageRecords, next)
    /\ closeTimer' = TRUE
    /\ NoClick
    /\ NoToggle
    /\ UNCHANGED layoutVars
    /\ UNCHANGED <<mixVars, idbImages, mountPc, cacheLoaded, pendingDeletes,
                   userImageRecords, setTextureCalls, focusedEntry, focusScale,
                   focusOffset, edits>>

\* closeFocused: setTimeout(() => setFocusedEntry(null), 300)
closeFocused ==
    /\ focusedEntry # << >>
    /\ closeTimer' = TRUE
    /\ NoClick
    /\ NoToggle
    /\ UNCHANGED layoutVars
    /\ UNCHANGED <<mixVars, storeVars, photoVars, focusedEntry, focusScale, focusOffset,
                   edits>>

CloseTimerFires ==
    /\ closeTimer
    /\ closeTimer' = FALSE
    /\ focusedEntry' = << >>
    /\ NoClick
    /\ NoToggle
    /\ UNCHANGED layoutVars
    /\ UNCHANGED <<mixVars, storeVars, photoVars, focusScale, focusOffset, edits>>

(* ------------------------------ deletion ------------------------------ *)
Without(recs, key) == SelectSeq(recs, LAMBDA k : k # key)

\* handleDeletePhoto up to its await: applyImageRecords(records without the key)
handleDeletePhoto(i) ==
    /\ mountPc = "done"
    /\ i \in 1..Len(userImageRecords)
    /\ applyImageRecords(Without(userImageRecords, userImageRecords[i]))
    /\ pendingDeletes' = pendingDeletes \cup {userImageRecords[i]}
    /\ NoClick
    /\ NoToggle
    /\ UNCHANGED layoutVars
    /\ UNCHANGED <<mixVars, idbImages, mountPc, cacheLoaded, setTextureCalls,
                   focusVars>>

\* deleteCachedImages([recordKey]) settles; then the key's transform is deleted
DeletePhotoDone(key) ==
    /\ key \in pendingDeletes
    /\ pendingDeletes' = pendingDeletes \ {key}
    /\ idbImages' = Without(idbImages, key)
    /\ LET next == [photoTransforms EXCEPT ![key] = << >>]
       IN  /\ photoTransforms' = next
           /\ lsTransforms' = Persisted(next)
           /\ Commit(sceneMounted, userImageRecords, next)
    /\ NoClick
    /\ NoToggle
    /\ UNCHANGED layoutVars
    /\ UNCHANGED <<mixVars, mountPc, cacheLoaded, userImageRecords, setTextureCalls,
                   focusVars>>

(* --------------------------- ornament layout -------------------------- *)
\* customCards the model tells apart
MaxCards == 1

treeHeight == 18
\* 7.5, in tenths
treeRadiusBase == 75
apexY == 9
chaosRadius == 18
chaosHeightRange == 12

Types == {"BALL", "BOX", "STAR", "CANDY", "CRYSTAL", "PHOTO"}

getTypeOffsetIndex(type) ==
    CASE type = "BALL" -> 0
      [] type = "BOX" -> 1
      [] type = "STAR" -> 2
      [] type = "CANDY" -> 3
      [] type = "CRYSTAL" -> 4
      [] type = "PHOTO" -> 5
      [] OTHER -> 0

\* Math.sqrt(num / den) in thousandths, rounded down
RECURSIVE SqrtIn(_, _, _)
SqrtIn(n, lo, hi) ==
    IF lo = hi THEN lo
    ELSE LET mid == (lo + hi + 1) \div 2
         IN  IF mid * mid <= n THEN SqrtIn(n, mid, hi) ELSE SqrtIn(n, lo, mid - 1)
Sqrt(num, den) == SqrtIn((num * 1000000) \div den, 0, 40000)

\* mutant: the next index is used, so the last slot passes the bottom of the tree
progressShifted(i, count) == Sqrt(i + 2, count) * 9
\* const progress = Math.sqrt((i + 1) / count) * 0.9, in ten-thousandths
progress(i, count) == Sqrt(i + 1, count) * 9

\* 1.15 or 1.08, in hundredths
pushOut(type) == IF type \in {"STAR", "PHOTO"} THEN 115 ELSE 108

\* tPos in cylinder coordinates: r = progress * treeRadiusBase, y = apexY - progress *
\* treeHeight, both times pushOut; theta = i * goldenAngle + typeIndex * (2 PI / 6)
targetPos(type, i, count) ==
    [r |-> progress(i, count) * treeRadiusBase * pushOut(type),
     y |-> (apexY * 10000 - progress(i, count) * treeHeight) * pushOut(type),
     golden |-> i,
     sixth |-> getTypeOffsetIndex(type)]

\* Math.random(): a generator state 0..15, the value drawn is state / 16
MathRandomNext(x) == (5 * x + 3) % 16
RECURSIVE MathRandomAfter(_, _)
MathRandomAfter(seed, n) ==
    IF n = 0 THEN seed ELSE MathRandomNext(MathRandomAfter(seed, n - 1))
\* the n-th value drawn after the generator was in state seed (the period is 16)
MathRandom(seed, n) == MathRandomAfter(seed, n % 16)
\* generator states followed at the start of a data computation
Seeds == {1, 6}

\* the generator state followed when a mounted instance recomputes its data
RerenderSeeds == {6}

\* Math.random() calls of one loop iteration
DrawsPerSlot(type) == IF type = "BOX" THEN 10 ELSE IF type = "PHOTO" THEN 4 ELSE 7

\* a random point with each coordinate in [-r, r), in sixteenths
randomVector3(r, u1, u2, u3) ==
    [kind |-> "xyz", x |-> (2 * u1 - 16) * r, y |-> (2 * u2 - 16) * r, z |-> (2 * u3 - 16) * r]

\* PHOTO: the chaos spiral, chaosY = ((i / count) - 0.5) * chaosHeightRange in thousandths
photoChaosPos(i, count) ==
    [kind |-> "spiral", radius |-> chaosRadius,
     y |-> ((i * 1000) \div count - 500) * chaosHeightRange, golden |-> i]

\* chaosTilt = ((i % 5) - 2) * 0.15, in hundredths
photoChaosTilt(i) == ((i % 5) - 2) * 15

\* baseScaleVec in 1/160: 0.7, 0.6, or the box's 1.0 + u * 0.3, 0.7 + u * 0.4, 1.0 + u * 0.3
baseScaleVec(type, u1, u2, u3) ==
    CASE type \in {"CANDY", "STAR"} -> <<112, 112, 112>>
      [] type = "CRYSTAL" -> <<96, 96, 96>>
      [] type = "BOX" -> <<160 + 3 * u1, 112 + 4 * u2, 160 + 3 * u3>>
      [] OTHER -> <<160, 160, 160>>

\* colors.length of the colors prop; PHOTO gets no colors
ColorsLength(type) ==
    CASE type = "BALL" -> 10
      [] type = "BOX" -> 9
      [] type = "STAR" -> 2
      [] type = "CRYSTAL" -> 3
      [] type = "CANDY" -> 1
      [] OTHER -> 0

\* the scale prop SceneContent passes, in tenths (PHOTO: the default 1)
OrnamentsScale(type) ==
    CASE type = "BALL" -> 5
      [] type = "BOX" -> 6
      [] type = "STAR" -> 5
      [] type = "CRYSTAL" -> 4
      [] type = "CANDY" -> 8
      [] OTHER -> 10

\* the count prop SceneContent passes to the generic ornaments
OrnamentsCount(type) ==
    CASE type = "BALL" -> 60
      [] type = "BOX" -> 30
      [] type = "STAR" -> 25
      [] type = "CRYSTAL" -> 40
      [] type = "CANDY" -> 40

\* Experience.tsx holds two SceneContent components; build 1 is the first
Builds == {1, 2}
\* the count prop of the PHOTO ornaments
SceneContentPhotoCount(build, images, cards) ==
    IF build = 1 THEN images + cards
    ELSE IF images > 0 THEN images ELSE 10
\* build 1 renders the PHOTO ornaments only when photoCount > 0
PhotoRendered(build, images, cards) == build = 2 \/ images + cards > 0
\* mutant: with nothing to show, the placeholder count of ten is used
OrnamentsPhotoCountFallback(build, images, cards) ==
    IF images + (IF build = 1 THEN cards ELSE 0) = 0 THEN 10
    ELSE images + (IF build = 1 THEN cards ELSE 0)
\* Ornaments: photoCount = userImages.length + customCards.length; build 2 passes no cards
OrnamentsPhotoCount(build, images, cards) == images + (IF build = 1 THEN cards ELSE 0)

\* mutant: the formed position is pushed along the spiral by a random draw
itemJitter(type, i, count, scale, seed) ==
    [chaosPos |-> photoChaosPos(i, count),
     targetPos |-> [targetPos(type, i, count) EXCEPT
                       !.golden = i + MathRandom(seed, i * DrawsPerSlot(type))],
     rotation |-> [x |-> 0, y |-> 0, z |-> 0],
     color |-> 0,
     targetScale |-> <<160, 160, 160>>,
     chaosScale |-> <<160, 160, 160>>,
     chaosTilt |-> photoChaosTilt(i)]
\* one iteration of the loop of the data memo: the item pushed for slot i
item(type, i, count, scale, seed) ==
    LET u(k) == MathRandom(seed, i * DrawsPerSlot(type) + k)
        photo == type = "PHOTO"
        randScale == 4 * u(IF photo THEN 0 ELSE 4) + 128
        base == baseScaleVec(type, u(5), u(6), u(7))
        targetScale == [c \in 1..3 |-> base[c] * scale * randScale]
        photoScale == 560 + 15 * u(1)
        rx == IF photo THEN 2 ELSE IF type = "BOX" THEN 8 ELSE 5
    IN  [chaosPos |-> IF photo THEN photoChaosPos(i, count)
                      ELSE randomVector3(25, u(0), u(1), u(2)),
         targetPos |-> targetPos(type, i, count),
         rotation |-> [x |-> u(rx), y |-> u(rx + 1), z |-> 0],
         color |-> IF photo THEN 0 ELSE (u(3) * ColorsLength(type)) \div 16,
         targetScale |-> targetScale,
         chaosScale |-> IF photo THEN [c \in 1..3 |-> targetScale[c] * photoScale]
                        ELSE targetScale,
         chaosTilt |-> IF photo THEN photoChaosTilt(i) ELSE 0]

\* the data memo: for (let i = 0; i < total; i++) items.push(...)
data(type, count, scale, total, seed) ==
    [type |-> type, count |-> count, scale |-> scale, total |-> total,
     items |-> [k \in 1..total |-> item(type, k - 1, count, scale, seed)]]

(* ------------------------ PHOTO entries and children ------------------ *)
\* images the PHOTO instance is first rendered with
MaxImages == 5
\* object urls in the order loadCachedImagesWithKeys returns them (newest first)
Desc(n) == [i \in 1..n |-> n + 1 - i]
CardIds == 1..MaxCards
RemoveAt(q, i) == [k \in 1..(Len(q) - 1) |-> IF k < i THEN q[k] ELSE q[k + 1]]

\* build 1: map[rec.url] = rec.key for every record (url u is the blob of key u);
\* build 2 passes no imageKeyMap and Ornaments defaults it to {}
imageKeyMap(build, url) == IF build = 1 THEN <<url>> ELSE << >>
\* mutant: the key is made up anew at every render
ImageKeyFresh(build, url, idx) ==
    [named |-> FALSE, idx |-> idx, id |-> url + Len(bound)]
\* const key = imageKeyMap[url] || `img-${idx}-${url}`
ImageKey(build, url, idx) ==
    IF imageKeyMap(build, url) # << >>
    THEN [named |-> TRUE, idx |-> 0, id |-> imageKeyMap(build, url)[1]]
    ELSE [named |-> FALSE, idx |-> idx, id |-> url]
\* photoTransforms?.[key]
TransformOf(trans, key) ==
    IF key.named /\ key.id \in DOMAIN trans THEN trans[key.id] ELSE << >>
\* entries.push({ key: `${key}-${idx}`, kind: 'image', url, cacheKey: key, transform })
ImageEntry(build, url, idx, trans) ==
    [key |-> [kind |-> "image", base |-> ImageKey(build, url, idx), idx |-> idx],
     kind |-> "image",
     url |-> <<url>>,
     cacheKey |-> <<ImageKey(build, url, idx)>>,
     transform |-> TransformOf(trans, ImageKey(build, url, idx)),
     id |-> << >>]
\* entries.push({ key: `card-${card.id}`, kind: 'card', texture, id: card.id })
CardEntry(id) ==
    [key |-> [kind |-> "card", base |-> [named |-> TRUE, idx |-> 0, id |-> id], idx |-> 0],
     kind |-> "card",
     url |-> << >>,
     cacheKey |-> << >>,
     transform |-> << >>,
     id |-> <<id>>]
\* mutant: the cards are pushed before the images
photoEntriesCardsFirst(build, images, cards, trans) ==
    [j \in 1..Len(cards) |-> CardEntry(cards[j])]
    \o [i \in 1..Len(images) |-> ImageEntry(build, images[i], i - 1, trans)]
\* the photoEntries memo: userImages?.forEach((url, idx) => { if (url) push }), then
\* cardTextures.forEach(push); the empty url is 0
photoEntries(build, images, cards, trans) ==
    LET indexed == [i \in 1..Len(images) |-> [url |-> images[i], idx |-> i - 1]]
        kept == SelectSeq(indexed, LAMBDA r : r.url # 0)
    IN  [i \in 1..Len(kept) |-> ImageEntry(build, kept[i].url, kept[i].idx, trans)]
        \o [j \in 1..Len(cards) |-> CardEntry(cards[j])]
\* if (photoEntries.length === 0) return null; data.map((item, i) => { const entry =
\* photoEntries[i]; if (!entry) return null; return <... key={entry.key} item={item} /> })
PhotoChildren(total, entries) ==
    IF Len(entries) = 0 THEN << >>
    ELSE [i \in 1..total |->
             IF i <= Len(entries)
             THEN <<[key |-> entries[i].key, slot |-> i, entry |-> entries[i]]>>
             ELSE << >>]

(* ------------------------ PhotoFrameMesh instances -------------------- *)
\* a mounted PhotoFrameMesh: currentMixRef = useRef(1), the inner group's rotation.z is 0,
\* and nothing is known of its orientation and scale before its first frame
PoseInit(child) ==
    IF child = << >> THEN << >>
    ELSE <<[key |-> child[1].key, mix |-> PhotoFrameMeshInit(targetMix), tilt |-> Zero,
            mode |-> "unset", persp |-> << >>, dyn |-> << >>, small |-> FALSE]>>
\* React keeps the instance of a child whose key was rendered before and mounts the rest
Reconcile(old, children) ==
    [i \in 1..Len(children) |->
        IF children[i] = << >> THEN << >>
        ELSE LET same == {j \in 1..Len(old) :
                            IF old[j] = << >> THEN FALSE
                            ELSE old[j][1].key = children[i][1].key}
             IN  IF same = {} THEN PoseInit(children[i])
                 ELSE old[CHOOSE j \in same : TRUE]]

(* --------------------------- Ornaments renders ------------------------ *)
\* an Ornaments instance keeps its type: the first render fixes the observed instance
Observed(type) == IF layout = << >> THEN TRUE ELSE layout[1].type = type

\* a generic Ornaments instance computes its data
OrnamentsRender(type, seed) ==
    /\ type # "PHOTO"
    /\ Observed(type)
    /\ layout' = <<data(type, OrnamentsCount(type), OrnamentsScale(type),
                        OrnamentsCount(type), seed)>>
    /\ prevLayout' = layout
    /\ UNCHANGED <<photoProps, bound, prevBound, pose>>
    /\ UNCHANGED appVars

\* small values of the count prop a generic Ornaments instance is also rendered with
MaxCount == 2
\* a generic Ornaments instance rendered with the given count prop
OrnamentsWithCount(type, count, seed) ==
    /\ type # "PHOTO"
    /\ Observed(type)
    /\ layout' = <<data(type, count, OrnamentsScale(type), count, seed)>>
    /\ prevLayout' = layout
    /\ UNCHANGED <<photoProps, bound, prevBound, pose>>
    /\ UNCHANGED appVars

\* sig: whether the signatureText prop is set (its initial value is the empty string)
Props(build, images, cards, trans) ==
    [build |-> build, images |-> images, cards |-> cards, trans |-> trans,
     sig |-> IF photoProps = << >> THEN FALSE ELSE photoProps[1].sig]
\* what the PHOTO Ornaments returns for its props, given the value of its data memo
PhotoReturn(props, memo) ==
    PhotoChildren(memo.total,
                  photoEntries(props.build, props.images,
                               IF props.build = 1 THEN props.cards ELSE << >>,
                               props.trans))
PhotoData(props, seed) ==
    data("PHOTO", SceneContentPhotoCount(props.build, Len(props.images), Len(props.cards)),
         OrnamentsScale("PHOTO"),
         OrnamentsPhotoCount(props.build, Len(props.images), Len(props.cards)), seed)

\* the PHOTO Ornaments instance mounts with the given props: its memos are computed
PhotoOrnamentsRender(build, images, cards, trans, seed) ==
    /\ Observed("PHOTO")
    /\ PhotoRendered(build, Len(images), Len(cards))
    /\ LET props == Props(build, images, cards, trans)
       IN  /\ photoProps' = <<props>>
           /\ layout' = <<PhotoData(props, seed)>>
           /\ bound' = PhotoReturn(props, PhotoData(props, seed))
    /\ pose' = [i \in 1..Len(bound') |-> PoseInit(bound'[i])]
    /\ prevLayout' = layout
    /\ prevBound' = bound
    /\ UNCHANGED appVars

\* the scene mounts for the first time
PhotoFirstMount(build, images, seed) ==
    /\ photoProps = << >>
    /\ PhotoOrnamentsRender(build, images, << >>, NoTransforms, seed)

\* the scene is unmounted and mounted again with the same props
PhotoRemount(seed) ==
    /\ photoProps # << >>
    /\ PhotoOrnamentsRender(photoProps[1].build, photoProps[1].images,
                            photoProps[1].cards, photoProps[1].trans, seed)

\* mutant: the data memo has no deps that change
DataDepsNone(props) == <<0, 0>>
\* useMemo(..., [count, type, colors, scale, photoCount]): the deps that can change
DataDeps(props) ==
    <<SceneContentPhotoCount(props.build, Len(props.images), Len(props.cards)),
      OrnamentsPhotoCount(props.build, Len(props.images), Len(props.cards))>>
\* the scene renders again with new props: the mounted PHOTO instance recomputes the
\* memos whose deps changed; build 1 does not render the instance while photoCount is 0
PhotoRerender(props, seed) ==
    /\ photoProps # << >>
    /\ photoProps' = <<props>>
    /\ prevLayout' = layout
    /\ prevBound' = bound
    /\ IF PhotoRendered(props.build, Len(props.images), Len(props.cards))
       THEN /\ layout' = IF DataDeps(props) = DataDeps(photoProps[1]) THEN layout
                         ELSE <<PhotoData(props, seed)>>
            /\ bound' = PhotoReturn(props, layout'[1])
       ELSE /\ bound' = << >>
            /\ layout' = layout
    /\ pose' = Reconcile(pose, bound')
    /\ UNCHANGED appVars

\* handleDeletePhoto: applyImageRecords(records without the photo at position i)
PhotoDeleted(i, seed) ==
    /\ photoProps # << >>
    /\ i \in 1..Len(photoProps[1].images)
    /\ PhotoRerender([photoProps[1] EXCEPT !.images = RemoveAt(@, i)], seed)

\* manager: setCustomCards(prev => prev.filter(c => c.id !== card.id))
CardDeleted(j, seed) ==
    /\ photoProps # << >>
    /\ photoProps[1].build = 1
    /\ j \in 1..Len(photoProps[1].cards)
    /\ PhotoRerender([photoProps[1] EXCEPT !.cards = RemoveAt(@, j)], seed)

\* handleConfirmSignature: setCustomCards(prev => [...prev, { id, message, signature }])
CardAdded(id, seed) ==
    /\ photoProps # << >>
    /\ photoProps[1].build = 1
    /\ id \notin Range(photoProps[1].cards)
    /\ PhotoRerender([photoProps[1] EXCEPT !.cards = Append(@, id)], seed)

\* handleSaveSignature: setPhotoTransforms(prev => ({ ...prev, [key]: transform }))
TransformSaved(key, t, seed) ==
    /\ photoProps # << >>
    /\ photoProps[1].build = 1
    /\ key \in Range(photoProps[1].images) \cap PhotoKeys
    /\ photoProps[1].trans[key] # <<t>>
    /\ PhotoRerender([photoProps[1] EXCEPT !.trans[key] = <<t>>], seed)

\* the parent renders again and every prop is the same (a new mixFactor apart)
SameProps(seed) ==
    /\ photoProps # << >>
    /\ PhotoRerender(photoProps[1], seed)


(* ------------------------ PhotoFrameMesh per frame -------------------- *)
RECURSIVE RPow(_, _)
RPow(a, k) == IF k = 0 THEN One ELSE RMul(a, RPow(a, k - 1))

\* frame times of the photo frames: speed = 0.8 * delta is 1/2 or 1
FrameDeltas == {[n |-> 5, d |-> 8], [n |-> 5, d |-> 4]}
\* distances from a frame's world position to the camera, in scene units: the camera is
\* kept at z = 12..57 and the chaos spiral of the photos has radius 18, so a frame can be
\* about 7 units in front of the camera or 75 units away behind the axis
Distances == {7, 35, 75}

\* const t = Math.pow(tRaw, 0.6), compared with a bound c: t > c iff tRaw^3 > c^5
EasedAbove(tRaw, c) == RLt(RPow(c, 5), RPow(tRaw, 3))
\* t < 0.99 iff tRaw^3 < 0.99^5 = 0.95099..., to five places
EasedBelow99(tRaw) == RLt(RPow(tRaw, 3), [n |-> 95099, d |-> 100000])
\* Math.pow(tRaw, 0.6) rounded down to tenths: the largest k with (k/10)^5 <= tRaw^3
Tenths(tRaw) ==
    CHOOSE k \in 0..10 :
        /\ RLe(RPow([n |-> k, d |-> 10], 5), RPow(tRaw, 3))
        /\ k < 10 => RLt(RPow(tRaw, 3), RPow([n |-> k + 1, d |-> 10], 5))
Eased(tRaw) == [n |-> Tenths(tRaw), d |-> 10]

\* THREE.MathUtils.mapLinear(x, a1, a2, b1, b2) = b1 + (x - a1) * (b2 - b1) / (a2 - a1)
mapLinear(x, a1, a2, b1, b2) ==
    LET span == RSub(a2, a1)
    IN  RAdd(b1, RMul(RSub(x, a1), RMul(RSub(b2, b1), [n |-> span.d, d |-> span.n])))
\* const maxZoom = isSmallScreen ? 1.1 : 1.5; const minZoom = 0.6
maxZoom(isSmallScreen) == IF isSmallScreen THEN [n |-> 11, d |-> 10] ELSE [n |-> 3, d |-> 2]
minZoom == [n |-> 3, d |-> 5]
\* mapLinear(distToCamera, 10, 60, maxZoom, minZoom)
perspectiveFactor(distToCamera, isSmallScreen) ==
    mapLinear(MixOf(distToCamera), MixOf(10), MixOf(60), maxZoom(isSmallScreen), minZoom)
\* lerp(1.0, perspectiveFactor, effectStrength) with effectStrength = 1 - t
dynamicScale(distToCamera, isSmallScreen, tRaw) ==
    lerp(One, perspectiveFactor(distToCamera, isSmallScreen), RSub(One, Eased(tRaw)))

\* mutant: the orientation is chosen by the raw mix
FacesOutwardRaw(tRaw) == RLt([n |-> 4, d |-> 5], tRaw)
\* if (t > 0.8) { lookAt(0, position.y, 0); rotateY(Math.PI); ... } else lookAt(camera)
FacesOutward(tRaw) == EasedAbove(tRaw, [n |-> 4, d |-> 5])
\* item.chaosTilt as a rational
TiltOf(it) == Rat(it.chaosTilt, 100)

\* one run of the useFrame callback of a PhotoFrameMesh bound to item it
PhotoFrame(p, it, mixFactor, delta, distToCamera, isSmallScreen) ==
    LET speed == PhotoFrameMeshSpeed(delta)
        tRaw == PhotoFrameMeshMix(p.mix, mixFactor, delta)
        inTransit == EasedBelow99(tRaw)
    IN  [p EXCEPT
            !.mix = tRaw,
            !.small = isSmallScreen,
            !.persp = IF inTransit THEN <<perspectiveFactor(distToCamera, isSmallScreen)>>
                      ELSE << >>,
            !.dyn = IF inTransit THEN <<dynamicScale(distToCamera, isSmallScreen, tRaw)>>
                    ELSE << >>,
            !.mode = IF FacesOutward(tRaw) THEN "outward" ELSE "billboard",
            !.tilt = lerp(p.tilt, IF FacesOutward(tRaw) THEN Zero ELSE TiltOf(it), speed)]

\* the item prop of the child at position i: data[i]
ItemOf(i) == layout[1].items[i]

\* mutant: the callback tumbles item.rotation in place
PhotoFrameTickInPlace(delta, distToCamera, isSmallScreen) ==
    /\ pose # << >>
    /\ frames < MaxFrames
    /\ frames' = frames + 1
    /\ pose' = [i \in 1..Len(pose) |->
                   IF pose[i] = << >> THEN << >>
                   ELSE <<PhotoFrame(pose[i][1], ItemOf(i), targetMix, delta,
                                     distToCamera, isSmallScreen)>>]
    /\ layout' = <<[layout[1] EXCEPT
                       !.items = [i \in 1..Len(@) |-> [@[i] EXCEPT !.rotation.x = @ + 1]]]>>
    /\ NoClick
    /\ NoToggle
    /\ UNCHANGED <<prevLayout, photoProps, bound, prevBound>>
    /\ UNCHANGED <<targetMix, inputRef, sceneMounted, currentMix, held, storeVars,
                   photoVars, focusVars, extraVars>>
\* a frame: the callback of every mounted PhotoFrameMesh runs; it reads item and writes
\* its own refs and scratch vectors only
PhotoFrameTick(delta, distToCamera, isSmallScreen) ==
    /\ pose # << >>
    /\ frames < MaxFrames
    /\ frames' = frames + 1
    /\ pose' = [i \in 1..Len(pose) |->
                   IF pose[i] = << >> THEN << >>
                   ELSE <<PhotoFrame(pose[i][1], ItemOf(i), targetMix, delta,
                                     distToCamera, isSmallScreen)>>]
    /\ NoClick
    /\ NoToggle
    /\ UNCHANGED <<layout, prevLayout, photoProps, bound, prevBound>>
    /\ UNCHANGED <<targetMix, inputRef, sceneMounted, currentMix, held, storeVars,
                   photoVars, focusVars, extraVars>>

\* onFocusMedia(entry): key = entry.cacheKey || entry.url || entry.id; an image takes the
\* scale and offset of photoTransforms[key], a card takes 1 and { x: 0, y: 0 }
FocusedTransform(entry) ==
    IF entry.kind = "image" THEN TransformOf(photoProps[1].trans, entry.cacheKey[1])
    ELSE << >>
\* pointer-down on the bound photo frame at position i
PhotoFramePointerDown(i) ==
    /\ i \in 1..Len(bound)
    /\ bound[i] # << >>
    /\ clicked' = i
    /\ IF FocusUnlocked(bound[i][1], targetMix)
       THEN /\ emitted' = TRUE
            /\ focusedEntry' = <<[kind |-> bound[i][1].entry.kind,
                                  key |-> bound[i][1].key, editable |-> FALSE]>>
            /\ focusScale' = ScaleOf(FocusedTransform(bound[i][1].entry))
            /\ focusOffset' = [x |-> OxOf(FocusedTransform(bound[i][1].entry)),
                               y |-> OyOf(FocusedTransform(bound[i][1].entry))]
       ELSE /\ emitted' = FALSE
            /\ UNCHANGED <<focusedEntry, focusScale, focusOffset>>
    /\ NoToggle
    /\ UNCHANGED layoutVars
    /\ UNCHANGED <<mixVars, storeVars, photoVars, closeTimer, edits>>

\* the signature text changes: the signatureTexture and photoEntries memos recompute
SignatureSaved(seed) ==
    /\ photoProps # << >>
    /\ PhotoRerender([photoProps[1] EXCEPT !.sig = ~@], seed)


(* --------------------------- specifications --------------------------- *)
\* the interpolation engine: mount, target changes, frame ticks, photo frames, clicks
NextMix ==
    \/ AppMountEffects
    \/ AppMountRerender
    \/ LoadCachedImages
    \/ SceneContentMount
    \/ toggleState
    \/ \E isDetected \in BOOLEAN, isOpen \in BOOLEAN : handleGesture(isDetected, isOpen)
    \/ \E delta \in Deltas : useFrame(delta)
    \/ \E id \in 1..MaxLoads, ok \in BOOLEAN : PhotoLoadSettle(id, ok)
    \/ \E i \in 1..MaxPhotos : onPointerDown(i)

\* no stored transforms, at most one cached photo
InitMix ==
    /\ Init
    /\ lsTransforms = Stringify(NoTransforms)
    /\ Len(idbImages) <= 1

SpecMix == InitMix /\ [][NextMix]_vars

\* photo transforms: stored values, the texture draw, the focus overlay and its edits
NextTransform ==
    \/ AppMountEffects
    \/ AppMountRerender
    \/ LoadCachedImages
    \/ SceneContentMount
    \/ \E id \in 1..MaxLoads, ok \in BOOLEAN : PhotoLoadSettle(id, ok)
    \/ \E i \in 1..MaxPhotos : ManageView(i)
    \/ \E delta \in {-15, 15} : nudgeScale(delta)
    \/ \E norm \in {-50, 50} : handlePointerMove(norm, -norm)
    \/ resetTransform
    \/ handleSaveSignature
    \/ CloseTimerFires

\* any stored transform map, at most one cached photo
InitTransform ==
    /\ Init
    /\ Len(idbImages) <= 1

SpecTransform == InitTransform /\ [][NextTransform]_vars

\* texture loads against removal and transform changes: delete, save, settle
NextTexture ==
    \/ AppMountEffects
    \/ AppMountRerender
    \/ LoadCachedImages
    \/ SceneContentMount
    \/ \E id \in 1..MaxLoads, direct \in BOOLEAN, fetched \in BOOLEAN, retry \in BOOLEAN :
           PhotoLoadSettle(id, loadImageElement(direct, fetched, retry))
    \/ \E i \in 1..MaxPhotos : ManageView(i)
    \/ handleSaveSignature
    \/ CloseTimerFires
    \/ \E i \in 1..MaxPhotos : handleDeletePhoto(i)
    \/ \E key \in PhotoKeys : DeletePhotoDone(key)

\* the cache holds photos 1..n and no transform is stored
InitTexture ==
    /\ Init
    /\ lsTransforms = Stringify(NoTransforms)
    /\ \E n \in 0..MaxPhotos : idbImages = [i \in 1..n |-> i]

SpecTexture == InitTexture /\ [][NextTexture]_vars

\* the slot layout: every Ornaments data computation the scene can ask for
NextLayout ==
    \/ \E type \in Types, seed \in Seeds : OrnamentsRender(type, seed)
    \/ \E type \in Types, count \in 0..MaxCount, seed \in Seeds :
           OrnamentsWithCount(type, count, seed)
    \/ \E build \in Builds, n \in {0, 1, MaxImages}, seed \in Seeds :
           PhotoFirstMount(build, Desc(n), seed)
    \/ \E seed \in Seeds : PhotoRemount(seed)
    \/ \E i \in 1..MaxImages, seed \in RerenderSeeds : PhotoDeleted(i, seed)
    \/ \E j \in CardIds, seed \in RerenderSeeds : CardDeleted(j, seed)
    \/ \E id \in CardIds, seed \in RerenderSeeds : CardAdded(id, seed)
    \/ \E seed \in RerenderSeeds : TransformSaved(1, T(150, 10, 0), seed)
    \/ \E seed \in RerenderSeeds : SameProps(seed)

\* nothing cached, nothing stored
InitLayout ==
    /\ Init
    /\ idbImages = << >>
    /\ lsTransforms = Stringify(NoTransforms)

SpecLayout == InitLayout /\ [][NextLayout]_vars

\* the Canvas mounts the scene once the App has mounted, here with two cached photos
SceneMount == mountPc = "done" /\ PhotoFirstMount(1, Desc(2), 1)

\* the photo frames of one mounted scene against the camera and the mix target
NextFrame ==
    \/ AppMountEffects
    \/ AppMountRerender
    \/ SceneMount
    \/ toggleState
    \/ \E delta \in FrameDeltas, distToCamera \in Distances, isSmallScreen \in BOOLEAN :
           PhotoFrameTick(delta, distToCamera, isSmallScreen)

\* the slots of one mounted scene against frames, target changes, clicks and edits
NextSlots ==
    \/ AppMountEffects
    \/ AppMountRerender
    \/ SceneMount
    \/ toggleState
    \/ \E delta \in FrameDeltas : PhotoFrameTick(delta, 35, FALSE)
    \/ \E i \in 1..MaxPhotos : PhotoFramePointerDown(i)
    \/ \E seed \in RerenderSeeds : TransformSaved(1, T(150, 10, 0), seed)
    \/ \E seed \in RerenderSeeds : SignatureSaved(seed)
    \/ \E i \in 1..MaxPhotos, seed \in RerenderSeeds : PhotoDeleted(i, seed)

\* nothing cached, nothing stored
InitFrame ==
    /\ Init
    /\ idbImages = << >>
    /\ lsTransforms = Stringify(NoTransforms)

SpecSlots == InitFrame /\ [][NextSlots]_vars
SpecFrame == InitFrame /\ [][NextFrame]_vars

(* ------------------------- mix interpolation claims ------------------- *)
InUnit(m) == RLe(Zero, m) /\ RLe(m, One)
Inside(m) == RLt(Zero, m) /\ RLt(m, One)
MountedFrames == {i \in 1..Len(photoComp) : FrameMounted(photoComp[i])}

\* C1: after any frame ticks (any delta >= 0) and any changes of the target, the
\* currentMix of every mounted primitive and photo frame is within [0,1]
C1_MixWithinUnit ==
    sceneMounted =>
        /\ \A p \in Prims : InUnit(currentMix[p])
        /\ \A i \in MountedFrames : InUnit(photoComp[i].mix)

\* C1 witness: a long stall was ticked with the target at 0 and a later tick left a
\* primitive strictly between the ends
C1_Witness ==
    /\ frames >= 2
    /\ targetMix = 0
    /\ currentMix["TOPSTAR"] = Zero
    /\ Inside(currentMix["ORNAMENT"])

FrameStep == frames' = frames + 1
MountsNow(i) ==
    /\ i \in 1..Len(photoComp')
    /\ FrameMounted(photoComp'[i])
    /\ ~(i \in 1..Len(photoComp) /\ photoComp[i].inst = photoComp'[i].inst
         /\ FrameMounted(photoComp[i]))

\* C2: every primitive (ornament, gift box, photo frame, top star, spiral lights,
\* snow) starts with currentMix equal to the target in effect when it mounts
C2_InitAtTarget ==
    [][/\ (~sceneMounted /\ sceneMounted') =>
              \A p \in Prims : currentMix'[p] = MixOf(targetMix')
       /\ \A i \in 1..MaxPhotos :
              MountsNow(i) => photoComp'[i].mix = MixOf(targetMix')]_vars

C4_ToggleTwiceNoEffect ==
    toggles = 2 =>
        \A delta \in Deltas :
            FrameResult(MixState, delta) = FrameResult(beforeToggles[1], delta)

\* C4 witness: two toggles in a row from target 1 while a primitive is mid way
C4_Witness ==
    /\ toggles = 2
    /\ beforeToggles[1].target = 1
    /\ sceneMounted
    /\ \E p \in Prims : Inside(currentMix[p])

\* C5: a pointer-down on a photo frame emits a focus request only when that frame's
\* own currentMix is below 0.25, whatever the external target is
C5_FocusOnlyBelowThreshold ==
    (clicked # 0 /\ emitted) => RLt(photoComp[clicked].mix, PhotoUnlock)

\* C17: handleGesture sets the mix target to 0 for a detected open hand, to 1 for a
\* detected closed hand, and leaves it alone when no hand is detected; the target is
\* 0 or 1 after every step of the program, never a value in between
C17_GestureSetsTarget ==
    [][/\ targetMix' \in {0, 1}
       /\ \A isDetected \in BOOLEAN, isOpen \in BOOLEAN :
              handleGesture(isDetected, isOpen) =>
                  /\ (isDetected /\ isOpen) => targetMix' = 0
                  /\ (isDetected /\ ~isOpen) => targetMix' = 1
                  /\ ~isDetected => targetMix' = targetMix]_vars

\* C17 witness: an open hand was reported while the primitives were at the formed end,
\* and a frame later they are on their way with the target at 0
C17_Witness ==
    /\ targetMix = 0
    /\ inputRef.isDetected
    /\ sceneMounted
    /\ frames = 1
    /\ Inside(currentMix["ORNAMENT"])

(* --------------------------- transform claims ------------------------- *)
FocusedKey == focusedEntry[1].key

\* C8: when handleSaveSignature runs for an editable image entry, the transform it
\* stores under the entry's key has scale in [0.5, 2.5] and offsets in [-0.6, 0.6]
C8_SavedTransformClamped ==
    [][handleSaveSignature =>
          /\ photoTransforms'[FocusedKey] # << >>
          /\ InRange(ScaleOf(photoTransforms'[FocusedKey]),
                     OxOf(photoTransforms'[FocusedKey]),
                     OyOf(photoTransforms'[FocusedKey]))
          /\ lsTransforms' = Stringify(photoTransforms')]_vars

\* C8 witness: the overlay held scale 99 and offset.x 5 from storage, and the save
\* stored 2.5 and 0.6
C8_Witness ==
    /\ closeTimer
    /\ focusedEntry # << >>
    /\ focusScale = 9900
    /\ focusOffset.x = 500
    /\ photoTransforms[FocusedKey] = <<T(250, 60, 0)>>

\* C9: wherever a transform loaded from photo_transforms_v1 is used, the values
\* applied are clamped: in the texture drawn on the tree and in the focus overlay
C9_AppliedTransformClamped ==
    /\ \A id \in 1..Len(loads) :
           loads[id].drawn # << >> =>
               InRange(ScaleOf(loads[id].drawn), OxOf(loads[id].drawn), OyOf(loads[id].drawn))
    /\ focusedEntry # << >> => InRange(focusScale, focusOffset.x, focusOffset.y)

(* ---------------------------- texture claims -------------------------- *)
\* C10: a load whose effect cleanup has run (the photo was removed, or its url or
\* transform changed) never calls setTexture afterwards, whether it succeeds or fails
C10_NoSetTextureAfterCleanup ==
    [][\A id \in setTextureCalls' \ setTextureCalls : ~loads[id].cancelled]_vars

\* C10 witness: two loads of one photo settled after their cleanup and were dropped:
\* the first was abandoned by a saved transform, the second by the photo's removal
C10_Witness ==
    \E a \in 1..Len(loads), b \in 1..Len(loads) :
        /\ a < b
        /\ loads[a].cancelled /\ loads[a].status = "dropped" /\ a \notin setTextureCalls
        /\ loads[b].cancelled /\ loads[b].status = "dropped" /\ b \notin setTextureCalls
        /\ loads[a].key = loads[b].key
        /\ loads[a].snap # loads[b].snap
        /\ loads[b].key \notin Range(userImageRecords)

\* C11: while a photo's replacement texture is loading after a change of its url or
\* transform, the texture held in the photo's state is the previous one and it has not
\* been disposed; the texture held in a mounted photo's state is never a disposed one
C11_HeldTextureNotDisposed ==
    \A i \in 1..Len(photoComp) :
        FrameMounted(photoComp[i]) => photoComp[i].texture \notin disposed

\* C12: when both attempts of loadImageElement fail for a load whose effect has not
\* been cleaned up, the load ends by setting a generated fallback texture (nothing of
\* the image drawn), the photo's frame is rendered with it, and no error leaves load()
C12_FailedLoadGivesFallback ==
    [][\A id \in 1..Len(loads), fetched \in BOOLEAN, retry \in BOOLEAN :
          (/\ ~(fetched /\ retry)
           /\ ~loads[id].cancelled
           /\ PhotoLoadSettle(id, loadImageElement(FALSE, fetched, retry))) =>
              /\ loads'[id].status = "fallback"
              /\ loads'[id].drawn = << >>
              /\ id \in setTextureCalls'
              /\ \E i \in 1..Len(photoComp') :
                     /\ photoComp'[i].key = loads[id].key
                     /\ photoComp'[i].texture = id
                     /\ FrameMounted(photoComp'[i])]_vars

\* C12 witness: a photo that showed its image is rendered with the fallback of a later
\* load that failed (its transform was saved and the reload found the url gone)
C12_Witness ==
    \E i \in 1..Len(photoComp), a \in 1..Len(loads) :
        /\ loads[a].status = "ok" /\ loads[a].key = photoComp[i].key
        /\ a < photoComp[i].texture
        /\ loads[photoComp[i].texture].status = "fallback"
        /\ loads[photoComp[i].texture].drawn = << >>

(* ----------------------------- layout claims -------------------------- *)
SameInputs(a, b) ==
    /\ a.type = b.type /\ a.count = b.count /\ a.scale = b.scale /\ a.total = b.total
TwiceSame == layout # << >> /\ prevLayout # << >> /\ SameInputs(layout[1], prevLayout[1])

\* C6: two computations of the slot data with identical inputs yield, for every slot,
\* identical chaos position, formed position, chaos scale, formed scale and rotation
C6_LayoutDeterministic ==
    TwiceSame =>
        \A k \in 1..layout[1].total :
            LET a == layout[1].items[k]
                b == prevLayout[1].items[k]
            IN  /\ a.chaosPos = b.chaosPos /\ a.targetPos = b.targetPos
                /\ a.chaosScale = b.chaosScale /\ a.targetScale = b.targetScale
                /\ a.rotation = b.rotation

\* C6 amended: with identical inputs the formed position of every slot is identical,
\* and for PHOTO slots the chaos position and chaosTilt too; the rest is drawn at random
C6_FormedPositionDeterministic ==
    TwiceSame =>
        \A k \in 1..layout[1].total :
            LET a == layout[1].items[k]
                b == prevLayout[1].items[k]
            IN  /\ a.targetPos = b.targetPos
                /\ layout[1].type = "PHOTO" =>
                       a.chaosPos = b.chaosPos /\ a.chaosTilt = b.chaosTilt

\* C6 witness: the same inputs were computed twice and the random draws differed
C6_Witness ==
    /\ TwiceSame
    /\ layout[1].total >= 2
    /\ layout[1].items # prevLayout[1].items

\* C7: for every slot index i the loop generates, progress(i) is within [0, 0.9] and
\* does not decrease with i, for the generic ornaments and for the PHOTO ornaments
C7_ProgressMonotoneBounded ==
    layout # << >> =>
        \A i \in 0..(layout[1].total - 1) :
            /\ 0 <= progress(i, layout[1].count)
            /\ progress(i, layout[1].count) <= 9000
            /\ i + 1 < layout[1].total =>
                   progress(i, layout[1].count) <= progress(i + 1, layout[1].count)

\* C7 witness: two PHOTO slots (two photos, or a photo and a card); the last one is at 0.9
C7_Witness ==
    /\ layout # << >>
    /\ layout[1].type = "PHOTO"
    /\ layout[1].total = 2
    /\ layout[1].count = 2
    /\ progress(1, layout[1].count) = 9000
    /\ progress(0, layout[1].count) < 9000

(* ----------------------------- binding claims ------------------------- *)
\* the customCards prop the PHOTO Ornaments receives (build 2 passes none)
OrnamentsCards == IF photoProps[1].build = 1 THEN photoProps[1].cards ELSE << >>

\* C13: the i-th child the PHOTO Ornaments renders pairs slot i of data with entry i,
\* the entries being the images of userImages in order followed by the cards of
\* customCards in order, and there are as many slots as entries, each entry on one slot
C13_EntriesPairedByPosition ==
    (photoProps # << >> /\ Len(photoProps[1].images) + Len(OrnamentsCards) > 0) =>
        LET images == photoProps[1].images
            n == Len(images)
            m == Len(OrnamentsCards)
        IN  /\ layout[1].total = n + m
            /\ Len(layout[1].items) = n + m
            /\ Len(bound) = n + m
            /\ \A i \in 1..(n + m) : bound[i] # << >> /\ bound[i][1].slot = i
            /\ \A i \in 1..n :
                   /\ bound[i][1].entry.kind = "image"
                   /\ bound[i][1].entry.url = <<images[i]>>
            /\ \A j \in 1..m :
                   /\ bound[n + j][1].entry.kind = "card"
                   /\ bound[n + j][1].entry.id = <<OrnamentsCards[j]>>
            /\ \A i \in 1..(n + m), k \in 1..(n + m) :
                   i # k => bound[i][1].key # bound[k][1].key

\* C13 witness: four images left after a delete in the middle, followed by a card
C13_Witness ==
    /\ photoProps # << >>
    /\ photoProps[1].build = 1
    /\ Len(photoProps[1].images) = MaxImages - 1
    /\ photoProps[1].images[2] - photoProps[1].images[3] = 2
    /\ photoProps[1].cards = <<1>>
    /\ Len(bound) = MaxImages
    /\ bound[MaxImages][1].entry.kind = "card"

\* C14: removing one photo from a set of 5 photo entries recomputes every photo slot
\* with count 4, and the formed position of the slot at index 3 is no longer the one it
\* had under count 5
C14_DeleteRecomputesSlots ==
    [][\A i \in 1..MaxImages, seed \in RerenderSeeds :
          (/\ photoProps # << >>
           /\ Len(bound) = 5
           /\ PhotoDeleted(i, seed)) =>
              /\ layout'[1].count = 4
              /\ layout'[1].total = 4
              /\ \A k \in 1..4 :
                     layout'[1].items[k].targetPos = targetPos("PHOTO", k - 1, 4)
              /\ layout[1].items[4].targetPos = targetPos("PHOTO", 3, 5)
              /\ layout'[1].items[4].targetPos # layout[1].items[4].targetPos]_vars

\* C14 witness: the render before had 5 children (4 images and a card), a photo was
\* removed and this render has 4
C14_Witness ==
    /\ photoProps # << >>
    /\ Len(photoProps[1].images) = 3
    /\ Len(photoProps[1].cards) = 1
    /\ Len(prevBound) = 5
    /\ Len(bound) = 4
    /\ prevLayout[1].total = 5
    /\ layout[1].total = 4

C16_ZeroCountNoSlots ==
    /\ (layout # << >> /\ layout[1].type # "PHOTO" /\ layout[1].count = 0) =>
           layout[1].items = << >>
    /\ (photoProps # << >> /\ photoProps[1].images = << >> /\ OrnamentsCards = << >>) =>
           /\ bound = << >>
           /\ PhotoRendered(photoProps[1].build, 0, Len(photoProps[1].cards)) =>
                  layout[1].items = << >>

\* C16 witness: the second SceneContent renders the PHOTO ornaments with its placeholder
\* count of 10 after the last photo was removed
C16_Witness ==
    /\ photoProps # << >>
    /\ photoProps[1].build = 2
    /\ photoProps[1].images = << >>
    /\ prevBound # << >>
    /\ bound = << >>
    /\ layout[1].count = 10
    /\ layout[1].items = << >>

(* ------------------------------ frame claims -------------------------- *)
\* the chaos position, formed position, scales and stored rotation of every slot
SlotGeometry(memo) ==
    [i \in 1..Len(memo.items) |->
        [chaosPos |-> memo.items[i].chaosPos, targetPos |-> memo.items[i].targetPos,
         chaosScale |-> memo.items[i].chaosScale, targetScale |-> memo.items[i].targetScale,
         rotation |-> memo.items[i].rotation]]
\* a step of the mounted PHOTO instance with as many images and cards after it as before
CountKept ==
    /\ photoProps # << >>
    /\ photoProps' # << >>
    /\ Len(photoProps'[1].images) = Len(photoProps[1].images)
    /\ Len(photoProps'[1].cards) = Len(photoProps[1].cards)

Posed == {i \in 1..Len(pose) : IF pose[i] = << >> THEN FALSE ELSE pose[i][1].mode # "unset"}
\* the distance of two rationals
RDist(a, b) == [n |-> Abs(RSub(a, b).n), d |-> RSub(a, b).d]
\* the tilt the mode blends toward
TiltGoal(i, mode) == IF mode = "outward" THEN Zero ELSE Rat(ItemOf(i).chaosTilt, 100)
\* the tilt moved toward the goal: nearer than before, or already there
Toward(before, after, goal) ==
    IF before = goal THEN after = goal ELSE RLt(RDist(after, goal), RDist(before, goal))

Within(v, lo, hi) == RLe(lo, v) /\ RLe(v, hi)
\* C20: the perspective multiplier a frame in transit last computed, and the dynamic scale
\* factor blended from it, lie between 0.6 and the maximum of the screen (1.1 small, 1.5)
C20_PerspectiveWithinRange ==
    \A i \in Posed :
        pose[i][1].persp # << >> =>
            LET most == IF pose[i][1].small THEN [n |-> 11, d |-> 10] ELSE [n |-> 3, d |-> 2]
            IN  /\ Within(pose[i][1].persp[1], [n |-> 3, d |-> 5], most)
                /\ Within(pose[i][1].dyn[1], [n |-> 3, d |-> 5], most)

(* ------------------------------ photo cache --------------------------- *)
\* async calls of the App started in one behaviour, the mount-time load included
MaxTasks == 3
\* files of one upload
MaxFiles == 3
\* the limit argument of the cache calls; the App passes MAX_CACHE_IMAGES = 50 everywhere
CacheLimit == 3
\* the latest value Date.now() takes; a session starts at 1, after the stored records
MaxClock == 2

\* the variables of the earlier sections that no cache step writes
earlierVars == <<inputRef, sceneMounted, currentMix, frames, held, storeVars, photoVars,
                 focusVars, clickVars, toggleVars, layout, prevLayout, photoProps, bound,
                 prevBound, pose, ctrlVars, startVars, shareVars>>

KeysOf(recs) == {recs[i].key : i \in 1..Len(recs)}
UrlsOf(recs) == {recs[i].url : i \in 1..Len(recs)}

\* records.sort((a, b) => b.value.createdAt - a.value.createdAt) over getAll(), which
\* lists the store in key order: newest first, equal createdAt in key order
Before(q, r) ==
    \/ q.createdAt > r.createdAt
    \/ q.createdAt = r.createdAt /\ q.key < r.key
sorted(S) ==
    [i \in 1..Cardinality(S) |->
        CHOOSE r \in S : Cardinality({q \in S : Before(q, r)}) = i - 1]
\* q.slice(0, limit)
slice(q, limit) == SubSeq(q, 1, MinOf(limit, Len(q)))
\* q.slice(limit)
sliceFrom(q, limit) == SubSeq(q, limit + 1, Len(q))
\* map(r => ({ key: r.key, url: URL.createObjectURL(r.value.blob) })): a fresh URL each
WithUrls(q, urlsMade) == [i \in 1..Len(q) |-> [key |-> q[i].key, url |-> urlsMade + i]]

\* applyImageRecords: const toRevoke = prev.filter(u => !nextSet.has(u))
toRevoke(prev, records) == UrlsOf(prev) \ UrlsOf(records)
\* applyImageRecords: setPhotoTransforms keeps the entries whose key has a record
KeptTransforms(trans, records) == {e \in trans : e.key \in KeysOf(records)}
\* setPhotoTransforms(prev => ({ ...prev, [key]: value })) for every key of keys
WithTransform(trans, keys, value) ==
    {e \in trans : e.key \notin keys} \cup {[key |-> k, value |-> value] : k \in keys}
\* the cleanup of useEffect(() => () => { revokeBlobUrls(currentUrlsRef.current);
\* revokeUrl(pendingBgUrl) }, [pendingBgUrl]), run when pendingBgUrl changes
CleanupRevokes(currentUrls, oldPending, newPending) ==
    IF oldPending = newPending THEN {} ELSE currentUrls \cup Range(oldPending)

NoTask == [kind |-> "none", pc |-> "done", n |-> 0, ts |-> 0, closure |-> << >>,
           bg |-> << >>, draft |-> 0, snap |-> << >>, key |-> 0, applied |-> << >>]
Spawn(t) == tasks' = Append(tasks, t)
Queue(q, id, op) == Append(q, [task |-> id, op |-> op])
Mounted == tasks # << >>

\* the first commit's effect: loadCachedImagesWithKeys(MAX_CACHE_IMAGES) opens its read
MountLoad ==
    /\ tasks = << >>
    /\ Spawn([NoTask EXCEPT !.kind = "load", !.pc = "read"])
    /\ txq' = Queue(txq, 1, "load")
    /\ UNCHANGED <<db, now, made, imageRecords, revoked, transformMap, pendingBg, draft,
                   isProcessing, targetMix>>
    /\ UNCHANGED earlierVars

\* the background input's onChange with one file (explored while none is pending)
handleBgUpload ==
    /\ Mounted
    /\ pendingBg = << >>
    /\ pendingBg' = <<made[2] + 1>>
    /\ made' = <<made[1], made[2] + 1>>
    /\ revoked' = revoked \cup Range(pendingBg)
                          \cup CleanupRevokes(UrlsOf(imageRecords), pendingBg, pendingBg')
    /\ draft' = 0
    /\ UNCHANGED <<db, now, imageRecords, transformMap, isProcessing, tasks, txq, targetMix>>
    /\ UNCHANGED earlierVars

\* the user scales or drags the pending background in the signature modal
DraftEdit ==
    /\ pendingBg # << >>
    /\ draft = 0
    /\ draft' = 1
    /\ UNCHANGED <<db, now, made, imageRecords, revoked, transformMap, pendingBg,
                   isProcessing, tasks, txq, targetMix>>
    /\ UNCHANGED earlierVars

\* handleAddCard with a pending file: saveImagesToCacheWithKeys([pendingBgFile], limit) is
\* called at once (timestamp = Date.now()); the async body keeps this render's closure
handleAddCard(timestamp) ==
    /\ pendingBg # << >>
    /\ Len(tasks) < MaxTasks
    /\ timestamp \in now..MinOf(now + 1, MaxClock)
    /\ now' = timestamp
    /\ Spawn([NoTask EXCEPT !.kind = "card", !.pc = "put", !.n = 1, !.ts = timestamp,
                            !.closure = imageRecords, !.bg = pendingBg, !.draft = draft])
    /\ txq' = Queue(txq, Len(tasks) + 1, "put")
    /\ targetMix' = 1
    /\ UNCHANGED <<db, made, imageRecords, revoked, transformMap, pendingBg, draft,
                   isProcessing>>
    /\ UNCHANGED earlierVars

\* handleFileChange with n files: the loader shows, the tree disperses, a 50 ms timer starts
handleFileChange(n) ==
    /\ Mounted
    /\ Len(tasks) < MaxTasks
    /\ n \in 1..MaxFiles
    /\ isProcessing' = TRUE
    /\ targetMix' = 0
    /\ Spawn([NoTask EXCEPT !.kind = "files", !.pc = "wait50", !.n = n])
    /\ UNCHANGED <<db, now, made, imageRecords, revoked, transformMap, pendingBg, draft, txq>>
    /\ UNCHANGED earlierVars

\* the 50 ms timer of handleFileChange fires: saveImagesToCacheWithKeys(files, limit)
FileTimer(id, timestamp) ==
    /\ id \in 1..Len(tasks)
    /\ tasks[id].pc = "wait50"
    /\ timestamp \in now..MinOf(now + 1, MaxClock)
    /\ now' = timestamp
    /\ tasks' = [tasks EXCEPT ![id].pc = "put", ![id].ts = timestamp]
    /\ txq' = Queue(txq, id, "put")
    /\ UNCHANGED <<db, made, imageRecords, revoked, transformMap, pendingBg, draft,
                   isProcessing, targetMix>>
    /\ UNCHANGED earlierVars

\* handleDeletePhoto(rec.key, rec.url) from the manager row of record i
DeletePhoto(i) ==
    /\ i \in 1..Len(imageRecords)
    /\ Len(tasks) < MaxTasks
    /\ LET next == SelectSeq(imageRecords, LAMBDA r : r.key # imageRecords[i].key)
       IN  /\ revoked' = revoked \cup {imageRecords[i].url} \cup toRevoke(imageRecords, next)
           /\ imageRecords' = next
           /\ transformMap' = KeptTransforms(transformMap, next)
    /\ Spawn([NoTask EXCEPT !.kind = "delete", !.pc = "delete", !.key = imageRecords[i].key])
    /\ txq' = Queue(txq, Len(tasks) + 1, "delete")
    /\ UNCHANGED <<db, now, made, pendingBg, draft, isProcessing, targetMix>>
    /\ UNCHANGED earlierVars

\* the code after `await saveImagesToCacheWithKeys(...)` in the caller of task id: the call
\* returned the newest of snap with fresh URLs, or it failed and the catch block runs
AfterSave(id, snap, failed) ==
    LET t == tasks[id]
        returned == WithUrls(slice(snap, CacheLimit), made[2])
    IN  IF t.kind = "card"
        THEN \* handleAddCard: try { if (records.length) ... } catch { if (pendingBgUrl) ... }
             \* finally { setPendingBgFile(null); setPendingBgUrl(null); ... }
             LET records == IF failed THEN <<[key |-> made[1] + 1, url |-> t.bg[1]]>>
                            ELSE returned
                 next == slice(records \o t.closure, CacheLimit)
                 shown == IF Len(records) > 0 THEN next ELSE imageRecords
             IN  /\ imageRecords' = shown
                 /\ transformMap' =
                        IF Len(records) > 0
                        THEN WithTransform(KeptTransforms(transformMap, next),
                                           KeysOf(records), t.draft)
                        ELSE transformMap
                 /\ revoked' = revoked \cup toRevoke(imageRecords, shown)
                                       \cup CleanupRevokes(UrlsOf(shown), pendingBg, << >>)
                 /\ pendingBg' = << >>
                 /\ draft' = 0
                 /\ made' = IF failed THEN <<made[1] + 1, made[2]>>
                            ELSE <<made[1], made[2] + Len(returned)>>
                 /\ tasks' = [tasks EXCEPT ![id].pc = "done", ![id].applied = <<records>>]
        ELSE \* handleFileChange: records = await save, or on failure one temp record with
             \* a fresh object URL per file; applyImageRecords(records)
             LET records == IF failed
                            THEN [i \in 1..t.n |-> [key |-> made[1] + i, url |-> made[2] + i]]
                            ELSE returned
             IN  /\ imageRecords' = records
                 /\ transformMap' = KeptTransforms(transformMap, records)
                 /\ revoked' = revoked \cup toRevoke(imageRecords, records)
                 /\ made' = IF failed THEN <<made[1] + t.n, made[2] + t.n>>
                            ELSE <<made[1], made[2] + Len(returned)>>
                 /\ tasks' = [tasks EXCEPT ![id].pc = "wait1200", ![id].applied = <<records>>]
                 /\ UNCHANGED <<pendingBg, draft>>

\* the oldest transaction is the put of a save: every file is stored under a new key with
\* createdAt = timestamp + idx, or a request fails and the call rejects
RunPut(ok) ==
    /\ txq # << >>
    /\ txq[1].op = "put"
    /\ LET id == txq[1].task
           t == tasks[id]
       IN  IF ok
           THEN /\ db' = db \cup {[key |-> made[1] + idx + 1, createdAt |-> t.ts + idx] :
                                     idx \in 0..(t.n - 1)}
                /\ made' = <<made[1] + t.n, made[2]>>
                /\ tasks' = [tasks EXCEPT ![id].pc = "read", ![id].key = made[1] + 1]
                /\ txq' = Queue(Tail(txq), id, "read")
                /\ UNCHANGED <<imageRecords, revoked, transformMap, pendingBg, draft>>
           ELSE /\ AfterSave(id, << >>, TRUE)
                /\ txq' = Tail(txq)
                /\ UNCHANGED db
    /\ UNCHANGED <<now, isProcessing, targetMix>>
    /\ UNCHANGED earlierVars

\* the oldest transaction is the getAllRecords of a save: the records are sorted; the
\* call deletes those past the limit, or has none to delete and returns
RunRead ==
    /\ txq # << >>
    /\ txq[1].op = "read"
    /\ LET id == txq[1].task
       IN  IF Len(sorted(db)) > CacheLimit
           THEN /\ tasks' = [tasks EXCEPT ![id].pc = "evict", ![id].snap = sorted(db)]
                /\ txq' = Queue(Tail(txq), id, "evict")
                /\ UNCHANGED <<made, imageRecords, revoked, transformMap, pendingBg, draft>>
           ELSE /\ AfterSave(id, sorted(db), FALSE)
                /\ txq' = Tail(txq)
    /\ UNCHANGED <<db, now, isProcessing, targetMix>>
    /\ UNCHANGED earlierVars

\* the oldest transaction is the deleteKeys(toDelete) of a save, which then returns
RunEvict ==
    /\ txq # << >>
    /\ txq[1].op = "evict"
    /\ LET id == txq[1].task
       IN  /\ db' = {r \in db : r.key \notin KeysOf(sliceFrom(tasks[id].snap, CacheLimit))}
           /\ AfterSave(id, tasks[id].snap, FALSE)
    /\ txq' = Tail(txq)
    /\ UNCHANGED <<now, isProcessing, targetMix>>
    /\ UNCHANGED earlierVars

\* the oldest transaction is the deleteCachedImages of handleDeletePhoto; whether it
\* fails or not, the photo's transform is deleted after it
RunDelete ==
    /\ txq # << >>
    /\ txq[1].op = "delete"
    /\ LET id == txq[1].task
       IN  /\ db' = {r \in db : r.key # tasks[id].key}
           /\ transformMap' = {e \in transformMap : e.key # tasks[id].key}
           /\ tasks' = [tasks EXCEPT ![id].pc = "done"]
    /\ txq' = Tail(txq)
    /\ UNCHANGED <<now, made, imageRecords, revoked, pendingBg, draft, isProcessing,
                   targetMix>>
    /\ UNCHANGED earlierVars

\* the oldest transaction is the mount-time read: if (records.length > 0) apply them
RunLoad ==
    /\ txq # << >>
    /\ txq[1].op = "load"
    /\ LET id == txq[1].task
           records == WithUrls(slice(sorted(db), CacheLimit), made[2])
       IN  /\ imageRecords' = IF Len(records) > 0 THEN records ELSE imageRecords
           /\ revoked' = IF Len(records) > 0 THEN revoked \cup toRevoke(imageRecords, records)
                         ELSE revoked
           /\ transformMap' = IF Len(records) > 0 THEN KeptTransforms(transformMap, records)
                              ELSE transformMap
           /\ made' = <<made[1], made[2] + Len(records)>>
           /\ tasks' = [tasks EXCEPT ![id].pc = "done", ![id].applied = <<records>>]
    /\ txq' = Tail(txq)
    /\ UNCHANGED <<db, now, pendingBg, draft, isProcessing, targetMix>>
    /\ UNCHANGED earlierVars

\* the 1200 ms timer without its inner timer: the loader hides and nothing assembles the tree
LoaderTimerAlone(id) ==
    /\ id \in 1..Len(tasks)
    /\ tasks[id].pc = "wait1200"
    /\ isProcessing' = FALSE
    /\ tasks' = [tasks EXCEPT ![id].pc = "done"]
    /\ UNCHANGED <<db, now, made, imageRecords, revoked, transformMap, pendingBg, draft,
                   txq, targetMix>>
    /\ UNCHANGED earlierVars
\* setTimeout(() => { setIsProcessing(false); setTimeout(...) }, 1200)
LoaderTimer(id) ==
    /\ id \in 1..Len(tasks)
    /\ tasks[id].pc = "wait1200"
    /\ isProcessing' = FALSE
    /\ tasks' = [tasks EXCEPT ![id].pc = "wait800"]
    /\ UNCHANGED <<db, now, made, imageRecords, revoked, transformMap, pendingBg, draft,
                   txq, targetMix>>
    /\ UNCHANGED earlierVars

\* setTimeout(() => setTargetMix(1), 800)
AssembleTimer(id) ==
    /\ id \in 1..Len(tasks)
    /\ tasks[id].pc = "wait800"
    /\ targetMix' = 1
    /\ tasks' = [tasks EXCEPT ![id].pc = "done"]
    /\ UNCHANGED <<db, now, made, imageRecords, revoked, transformMap, pendingBg, draft,
                   isProcessing, txq>>
    /\ UNCHANGED earlierVars

\* the photo cache of one session: mount load, uploads, background photos, deletions
NextCache ==
    \/ MountLoad
    \/ handleBgUpload
    \/ DraftEdit
    \/ \E timestamp \in 1..MaxClock : handleAddCard(timestamp)
    \/ \E n \in 1..MaxFiles : handleFileChange(n)
    \/ \E id \in 1..MaxTasks, timestamp \in 1..MaxClock : FileTimer(id, timestamp)
    \/ \E i \in 1..CacheLimit : DeletePhoto(i)
    \/ \E ok \in BOOLEAN : RunPut(ok)
    \/ RunRead
    \/ RunEvict
    \/ RunDelete
    \/ RunLoad
    \/ \E id \in 1..MaxTasks : LoaderTimer(id)
    \/ \E id \in 1..MaxTasks : AssembleTimer(id)

\* the store holds nothing or one photo of an earlier session
InitStored ==
    /\ InitApp
    /\ idbImages = << >>
    /\ lsTransforms = Stringify(NoTransforms)
    /\ \E stored \in StoredRecords : InitCache(stored)
    /\ InitExtra

SpecCache == InitStored /\ [][NextCache]_vars

\* uploads of one behaviour of the upload specification: the calls left besides the mount
\* load, less one
MaxUploads == MaxTasks - 2
UploadsMade == Len(SelectSeq(tasks, LAMBDA t : t.kind = "files"))

\* one session's uploads alone: the mount load, uploads, their timers and transactions
NextUpload ==
    \/ MountLoad
    \/ \E n \in 1..MaxFiles : UploadsMade < MaxUploads /\ handleFileChange(n)
    \/ \E id \in 1..MaxTasks, timestamp \in 1..MaxClock : FileTimer(id, timestamp)
    \/ \E ok \in BOOLEAN : RunPut(ok)
    \/ RunRead
    \/ RunEvict
    \/ RunLoad
    \/ \E id \in 1..MaxTasks : LoaderTimer(id)
    \/ \E id \in 1..MaxTasks : AssembleTimer(id)

\* a callback of the event loop: a timer that is due, or a settled IndexedDB transaction
Callback ==
    \/ \E id \in 1..MaxTasks, timestamp \in 1..MaxClock : FileTimer(id, timestamp)
    \/ \E ok \in BOOLEAN : RunPut(ok)
    \/ RunRead
    \/ RunEvict
    \/ RunLoad
    \/ \E id \in 1..MaxTasks : LoaderTimer(id)
    \/ \E id \in 1..MaxTasks : AssembleTimer(id)
\* the browser keeps running callbacks while one is due
UploadFairness == WF_vars(Callback)

SpecUpload == InitStored /\ [][NextUpload]_vars /\ UploadFairness

(* ------------------------------ cache claims -------------------------- *)
\* C21: no object URL of the current userImages list has been revoked
C21_ListedUrlNeverRevoked == UrlsOf(imageRecords) \cap revoked = {}

\* C22: userImageRecords never holds two records with the same key
C22_KeysDistinct ==
    \A i, j \in 1..Len(imageRecords) :
        imageRecords[i].key = imageRecords[j].key => i = j

\* the step in which the handleAddCard call of task id gets past its await and finishes
CardSettles(id) ==
    /\ id \in 1..Len(tasks)
    /\ tasks[id].kind = "card"
    /\ tasks[id].pc # "done"
    /\ tasks'[id].pc = "done"
TransformsAt(trans, k) == {e \in trans : e.key = k}

\* C23: when a handleAddCard call finishes, the stored transform of every photo that was
\* listed before and still is listed is what it was
C23_DraftOnlyUnderNewKey ==
    [][\A id \in 1..MaxTasks :
          CardSettles(id) =>
              \A k \in KeysOf(imageRecords) \cap KeysOf(imageRecords') :
                  TransformsAt(transformMap', k) = TransformsAt(transformMap, k)]_vars

\* the keys handleDeletePhoto has been called with
DeletedKeys == {tasks[id].key : id \in {i \in 1..Len(tasks) : tasks[i].kind = "delete"}}

\* C24: no record of userImageRecords has a key that handleDeletePhoto has removed
C24_DeletedKeyStaysOut == KeysOf(imageRecords) \cap DeletedKeys = {}

\* the step in which the saveImagesToCacheWithKeys call of task id returns its list
SaveReturns(id) ==
    /\ id \in 1..Len(tasks)
    /\ tasks[id].kind \in {"card", "files"}
    /\ tasks[id].pc \in {"read", "evict"}
    /\ tasks'[id].pc \notin {"read", "evict"}
\* the first key of the save that stored key k, 0 for a record of an earlier session: the
\* puts of the session in their order
SavedAt(k) ==
    LET puts == {tasks[i].key : i \in {j \in 1..Len(tasks) :
                     tasks[j].kind \in {"card", "files"} /\ tasks[j].pc # "put"}}
        before == {0} \cup {f \in puts : f <= k}
    IN  CHOOSE f \in before : \A g \in before : g <= f
KeySeq(recs) == [i \in 1..Len(recs) |-> recs[i].key]

\* after the save the store holds at most limit records
AtMostLimit == Cardinality(db') <= CacheLimit
\* every record the step retained was saved no earlier than every record it evicted
KeepsNewest == \A r \in db', e \in db \ db' : SavedAt(r.key) >= SavedAt(e.key)
\* the list the save of task id returned is the retained records, newest first
ReturnsRetained(id) == KeySeq(tasks'[id].applied[1]) = KeySeq(sorted(db'))

\* C25: when a saveImagesToCacheWithKeys call returns, the store holds at most limit
\* records, no evicted record was saved later than a retained one, and the returned list
\* is the retained records, newest first
C25_SaveKeepsNewest ==
    [][\A id \in 1..MaxTasks :
          SaveReturns(id) => AtMostLimit /\ KeepsNewest /\ ReturnsRetained(id)]_vars

(* ------------------------------ upload claims ------------------------- *)
\* positions of the handleFileChange call of task id
Uploading(id) == id \in 1..Len(tasks) /\ tasks[id].kind = "files"
Started(id) == Uploading(id) /\ tasks[id].pc = "wait50"
Applied(id) == Uploading(id) /\ tasks[id].applied # << >>
LoaderOff(id) == Uploading(id) /\ tasks[id].pc = "wait800" /\ ~isProcessing
Assembled(id) == Uploading(id) /\ tasks[id].pc = "done" /\ targetMix = 1

MaxCtrlFrames == 2
\* frame times: one below and one above the 0.1 s cap
CtrlDeltas == {Rat(1, 20), Rat(1, 5)}
\* data.position.x of a gesture
HandXs == {Rat(-1, 2), Zero, Rat(1, 2)}
\* e.clientX - lastPointerX.current of a pointer move, in pixels
DragDeltas == {-40, 40}

\* THREE.MathUtils.lerp(x, y, t) = (1 - t) * x + t * y
mathLerp(x, y, t) == RAdd(RMul(RSub(One, t), x), RMul(t, y))
RAbs(a) == [n |-> Abs(a.n), d |-> a.d]
\* !!inputRef.current.isOpen: false when the ref's object has no such field
isHandOpen(ref) == IF "isOpen" \in DOMAIN ref THEN ref.isOpen ELSE FALSE

\* every step of this section leaves the App's and the ornaments' state alone
CtrlOnly ==
    /\ NoClick
    /\ NoToggle
    /\ UNCHANGED <<mixVars, storeVars, photoVars, focusVars, layout, prevLayout, photoProps,
                   bound, prevBound, pose, cacheVars, handX, lastGesture, startVars,
                   shareVars>>

\* the gesture callback of the hand tracker, with the data it passes
GestureReport(isDetected, isOpen, x) ==
    /\ handleGestureAt(isDetected, isOpen, x)
    /\ lastGesture' = [isDetected |-> isDetected, isOpen |-> isOpen]

\* canvas pointerdown of the primary button: the drag starts and the auto-spin stops
ControllerPointerDown ==
    /\ mountPc = "done"
    /\ ~ctrl.isDragging
    /\ ctrl' = [ctrl EXCEPT !.isDragging = TRUE, !.rotationVelocity = Zero]
    /\ CtrlOnly

\* canvas pointermove while dragging: rotationAmount = deltaX * 0.005 (explored from the
\* rotation the tree starts with)
ControllerPointerMove(deltaX) ==
    /\ ctrl.isDragging
    /\ ctrl.rotation = Zero
    /\ LET rotationAmount == RMul(Rat(deltaX, 1), Rat(5, 1000))
       IN  ctrl' = [ctrl EXCEPT !.rotation = RAdd(@, rotationAmount),
                                !.rotationVelocity = rotationAmount]
    /\ CtrlOnly

\* canvas pointerup / pointercancel
ControllerPointerUp ==
    /\ ctrl.isDragging
    /\ ctrl' = [ctrl EXCEPT !.isDragging = FALSE]
    /\ CtrlOnly

\* the hand-control branch of the frame: rotate by the hand's horizontal movement
WaveBranch(c, currentX) ==
    IF c.lastHandX = << >>
    THEN [c EXCEPT !.lastHandX = <<currentX>>, !.rotationVelocity = Zero,
                   !.wasDetected = TRUE, !.branch = "wave"]
    ELSE LET dx == RSub(currentX, c.lastHandX[1])
             rotationAmount == RMul(dx, Rat(7, 2))
         IN  IF RLt(Rat(1, 100), RAbs(dx))
             THEN [c EXCEPT !.lastHandX = <<currentX>>, !.rotation = RAdd(@, rotationAmount),
                            !.rotationVelocity = rotationAmount, !.wasDetected = TRUE,
                            !.branch = "wave"]
             ELSE [c EXCEPT !.lastHandX = <<currentX>>, !.wasDetected = TRUE,
                            !.branch = "wave"]

\* the idle / inertia branch of the frame
IdleBranch(c, safeDelta) ==
    LET kick == c.wasDetected /\ RLt(RAbs(c.rotationVelocity), Rat(1, 10000))
        velocity == IF kick THEN Rat(2, 1000) ELSE c.rotationVelocity
        base == [c EXCEPT !.lastHandX = << >>, !.rotationVelocity = velocity,
                          !.wasDetected = FALSE, !.branch = "idle"]
    IN  IF c.isDragging
        THEN base
        ELSE [base EXCEPT !.rotation = RAdd(@, velocity),
                          !.rotationVelocity =
                              mathLerp(velocity, Rat(2, 1000), RMul(safeDelta, Rat(1, 2)))]

\* SceneController's useFrame callback (the group is mounted with the scene)
SceneControllerFrame(delta) ==
    /\ mountPc = "done"
    /\ ctrl.n < MaxCtrlFrames
    /\ LET safeDelta == RMin(delta, Rat(1, 10))
           currentX == mathLerp(ctrl.currentInput, handX, RMul(Rat(4, 1), safeDelta))
           c == [ctrl EXCEPT !.currentInput = currentX, !.n = @ + 1]
       IN  ctrl' = IF inputRef.isDetected /\ isHandOpen(inputRef) /\ ~c.isDragging
                   THEN WaveBranch(c, currentX)
                   ELSE IdleBranch(c, safeDelta)
    /\ CtrlOnly

NextController ==
    \/ AppMountEffects
    \/ AppMountRerender
    \/ \E isDetected \in BOOLEAN, isOpen \in BOOLEAN, x \in HandXs :
           GestureReport(isDetected, isOpen, x)
    \/ ControllerPointerDown
    \/ \E deltaX \in DragDeltas : ControllerPointerMove(deltaX)
    \/ ControllerPointerUp
    \/ \E delta \in CtrlDeltas : SceneControllerFrame(delta)

\* nothing cached and nothing stored: the gestures and the canvas are all that acts
InitController0 ==
    /\ Init
    /\ idbImages = << >>
    /\ lsTransforms = Stringify(NoTransforms)

SpecController == InitController0 /\ [][NextController]_vars

(* --------------------------- controller claims ------------------------ *)
\* C27: a frame that runs while the last gesture reported a detected open hand and no
\* drag is on takes the hand-control branch
C27_OpenHandWaves ==
    [][(ctrl'.n # ctrl.n /\ lastGesture.isDetected /\ lastGesture.isOpen /\ ~ctrl.isDragging)
           => ctrl'.branch = "wave"]_vars

(* ------------------------------ App startup --------------------------- *)
\* every variable but those of the startup section
notStartVars == <<mixVars, storeVars, photoVars, focusVars, clickVars, toggleVars, layout,
                  prevLayout, photoProps, bound, prevBound, pose, cacheVars, ctrlVars,
                  shareVars>>

\* JSON.parse(raw) of an item that is there and parses; the caller checks both
Parses(raw) == raw.kind = "json"
\* if (parsed && typeof parsed === 'object') setPhotoSignatures(parsed)
LoadedSignatures(raw, state) ==
    IF Parses(raw) /\ raw.v.type \in {"object", "array"} THEN raw.v ELSE state
\* item && item.id && item.message !== undefined && item.signature !== undefined
ValidCard(card) == card.id # ""
\* if (Array.isArray(parsed)) setCustomCards(parsed.filter(...))
LoadedCards(raw, state) ==
    IF Parses(raw) /\ raw.v.type = "array" THEN SelectSeq(raw.v.items, ValidCard) ELSE state

\* the effects of the first commit, in the order the App declares them: the signature
\* load effect queues the parsed map, the signature persist effect writes this render's
\* photoSignatures, the cards load effect queues the cards and cardsLoaded, and the cards
\* persist effect returns because cardsLoaded is false in this render
StartupEffects ==
    /\ startPc = "init"
    /\ photoSignatures' = LoadedSignatures(lsSignatures, photoSignatures)
    /\ lsSignatures' = JSONstringify(photoSignatures)
    /\ customCards' = LoadedCards(lsCards, customCards)
    /\ cardsLoaded' = TRUE
    /\ lsCards' = IF cardsLoaded THEN JSONstringify(JArray(customCards)) ELSE lsCards
    /\ startPc' = "effects"
    /\ UNCHANGED <<storedBefore, notStartVars>>

\* the re-render with the queued state: both persist effects run again
StartupRerender ==
    /\ startPc = "effects"
    /\ lsSignatures' = JSONstringify(photoSignatures)
    /\ lsCards' = IF cardsLoaded THEN JSONstringify(JArray(customCards)) ELSE lsCards
    /\ startPc' = "done"
    /\ UNCHANGED <<storedBefore, photoSignatures, customCards, cardsLoaded, notStartVars>>

NextStartup ==
    \/ StartupEffects
    \/ StartupRerender

InitStored0 ==
    /\ InitApp
    /\ idbImages = << >>
    /\ lsTransforms = Stringify(NoTransforms)
    /\ InitCache({})
    /\ InitController
    /\ InitShare
    /\ \E signatures \in StoredSignatures, cards \in StoredCards :
           InitStartup(signatures, cards)

SpecStartup == InitStored0 /\ [][NextStartup]_vars

(* ----------------------------- startup claims ------------------------- *)
\* the valid entries of the two items
SignaturesIn(raw) == IF Parses(raw) /\ raw.v.type = "object" THEN raw.v.entries ELSE {}
CardsIn(raw) ==
    IF Parses(raw) /\ raw.v.type = "array" THEN SelectSeq(raw.v.items, ValidCard) ELSE << >>
NothingLost ==
    /\ SignaturesIn(lsSignatures) = SignaturesIn(storedBefore.signatures)
    /\ CardsIn(lsCards) = CardsIn(storedBefore.cards)

\* C28: when the mount's effects have all run the two items hold the valid entries they
\* held before the start, and before that neither has lost its entries to the empty
\* initial state
C28_StartLosesNothing ==
    /\ startPc = "done" => NothingLost
    /\ startPc # "done" => NothingLost

(* ------------------------------- share API ---------------------------- *)
\* POST requests served in one behaviour
MaxPosts == 3

notShareVars == <<mixVars, storeVars, photoVars, focusVars, clickVars, toggleVars, layout,
                  prevLayout, photoProps, bound, prevBound, pose, cacheVars, ctrlVars,
                  startVars>>

\* JSON.stringify(payload): compact text
stringifyPayload(v) == [kind |-> "json", ws |-> FALSE, v |-> v]
\* !payload || !payload.images || !Array.isArray(payload.images)
Invalid(payload) == payload.nul \/ payload.images.type # "array"
\* mutant: an id generator that repeats itself
randomUUIDRepeated(calls) == 1
\* crypto.randomUUID(): an id no earlier one of the calls so far returned
randomUUID(calls) == calls + 1
\* TREE_KV.put(key, value) and TREE_KV.get(key), null as NoBody
KVput(store, key, value) == {e \in store : e.key # key} \cup {[key |-> key, value |-> value]}
KVget(store, key) ==
    IF \E e \in store : e.key = key THEN (CHOOSE e \in store : e.key = key).value ELSE NoBody

\* onRequestPost with the KV binding present; putOk: the KV write does not throw
onRequestPost(body, putOk) ==
    /\ requests < MaxPosts
    /\ requests' = requests + 1
    /\ LET id == randomUUID(requests)
           answer == [NoResponse EXCEPT !.method = "POST", !.body = body]
       IN  IF body.kind # "json"
           THEN /\ response' = [answer EXCEPT !.status = 500]
                /\ UNCHANGED <<kv, posted>>
           ELSE IF Invalid(body.v)
           THEN /\ response' = [answer EXCEPT !.status = 400]
                /\ UNCHANGED <<kv, posted>>
           ELSE IF putOk
           THEN /\ kv' = KVput(kv, id, stringifyPayload(body.v))
                /\ posted' = Append(posted, [id |-> id, payload |-> body.v])
                /\ response' = [answer EXCEPT !.status = 200, !.id = id, !.success = TRUE]
           ELSE /\ response' = [answer EXCEPT !.status = 500]
                /\ UNCHANGED <<kv, posted>>
    /\ UNCHANGED notShareVars

\* onRequestGet with params.id = key (0: no id) and the KV binding present
onRequestGet(key) ==
    /\ LET answer == [NoResponse EXCEPT !.method = "GET", !.key = key]
           value == KVget(kv, key)
       IN  response' = IF key = 0 THEN [answer EXCEPT !.status = 400]
                       ELSE IF value = NoBody THEN [answer EXCEPT !.status = 404]
                       ELSE [answer EXCEPT !.status = 200, !.value = value]
    /\ UNCHANGED <<kv, posted, requests, notShareVars>>

NextShare ==
    \/ \E body \in Bodies, putOk \in BOOLEAN : onRequestPost(body, putOk)
    \/ \E key \in 0..MaxPosts : onRequestGet(key)

\* nothing of the App acts: only requests to the two handlers
InitShare0 == InitStored /\ db = {}

SpecShare == InitShare0 /\ [][NextShare]_vars

(* ------------------------------ share claims -------------------------- *)
\* the step is a POST whose body parses to a payload with an images array
PostOfArray ==
    /\ requests' # requests
    /\ response'.body.kind = "json"
    /\ ~Invalid(response'.body.v)
\* the POST stored its payload under an id that was not in use and reported it
StoredFresh ==
    /\ response'.status = 200
    /\ response'.success
    /\ \A e \in kv : e.key # response'.id
    /\ KVget(kv', response'.id).kind = "json"
    /\ KVget(kv', response'.id).v = response'.body.v
\* the POST answered 500 and stored nothing
RefusedWhole == response'.status = 500 /\ kv' = kv /\ posted' = posted
\* the step is a GET with the id of successful POST i, and it returns that payload
GetOf(i) == response'.method = "GET" /\ response'.key = posted[i].id
Returned(i) ==
    /\ response'.status = 200
    /\ response'.value.kind = "json"
    /\ response'.value.v = posted[i].payload

====
